---- MODULE Spec2Model ----
(***************************************************************************)
(* A model of three components of the workbench sources:                   *)
(*   CaretHierarchy   (src/src/Common/CaretHierarchy.cxx)                  *)
(*   ClusterContainer (src/src/Common/ClusterContainer.cxx)                *)
(* Each component has its own specification over the shared variables.     *)
(***************************************************************************)
EXTENDS Integers, Sequences, FiniteSets, TLC

VARIABLES
    m_root,        \* CaretHierarchy::m_root, an Item [name, extraInfo, children]
    m_usedNames,   \* CaretHierarchy::m_usedNames
    last,          \* the last call made on the modelled object, with its
                   \* arguments, its result and the state it was made in
    parents,       \* readXML: vector<QString> parents
    addedInfo,     \* readXML: vector<OrderedKVStore*> addedInfo, each pointer
                   \* held as the path of the Item whose extraInfo it addresses
    haveRoot,      \* readXML: bool haveRoot
    rootEnded,     \* readXML: bool rootEnded
    staleInfo,     \* the positions of addedInfo whose pointer was taken into a
                   \* vector that push_back has grown since (it may dangle)
    pc,            \* where readXML stands: "idle" (not called), "readXML" (its
                   \* loop), "Info" (the loop of OrderedKVStore::readXML),
                   \* "done" (returned), "error" (threw)
    err,           \* the CaretException readXML threw, NoError if none
    xmlDoc,        \* the tokens the QXmlStreamReader has delivered so far
    jsonDoc,       \* the document in the file given to readJsonFile
    m_clusters,    \* ClusterContainer::m_clusters; a Cluster* is held as the
                   \* index of its cluster in m_clusters
    m_mapWithClustersSortedByKey,    \* multimap, as its <<key, Cluster*>> pairs in order
    m_mapWithClustersSortedByName,   \* multimap, as its <<name, Cluster*>> pairs in order
    m_vectorClustersSortedByKey,
    m_vectorClustersSortedByName,
    m_keysSorted,
    m_giftiLabelTable,   \* LabelSelectionItemModel::m_giftiLabelTable, the
                         \* name of each label by key; its hierarchy is m_root
    rootItem,            \* the rows of invisibleRootItem(), each a
                         \* LabelSelectionItem with its rows in children; a
                         \* LabelSelectionItem* is held as the path of rows
    m_labelKeyToLabelSelectionItem,
    m_buildTreeMissingLabelNames,
    m_hierarchyParentNames,
    m_validFlag,
    isSelected,          \* by label key, GroupAndNameHierarchyItem::isSelected
                         \* of the label for m_displayGroup and m_tabIndex
    sceneClass,          \* the SceneClass saveToScene returned last
    savedRows            \* the rows of the model when that scene was saved

hvars == <<m_root, m_usedNames>>
xvars == <<parents, addedInfo, haveRoot, rootEnded, staleInfo, pc, err, xmlDoc>>
cvars == <<m_clusters, m_mapWithClustersSortedByKey,
           m_mapWithClustersSortedByName, m_vectorClustersSortedByKey,
           m_vectorClustersSortedByName, m_keysSorted>>
lvars == <<m_giftiLabelTable, rootItem, m_labelKeyToLabelSelectionItem,
           m_buildTreeMissingLabelNames, m_hierarchyParentNames, m_validFlag,
           isSelected, sceneClass, savedRows>>
vars == <<m_root, m_usedNames, last, parents, addedInfo, haveRoot, rootEnded,
          staleInfo, pc, err, xmlDoc, jsonDoc, m_clusters, m_mapWithClustersSortedByKey,
          m_mapWithClustersSortedByName, m_vectorClustersSortedByKey,
          m_vectorClustersSortedByName, m_keysSorted, m_giftiLabelTable,
          rootItem, m_labelKeyToLabelSelectionItem,
          m_buildTreeMissingLabelNames, m_hierarchyParentNames, m_validFlag,
          isSelected, sceneClass, savedRows>>

\* No LabelSelectionItemModel has been constructed.
\* const SceneClass* sceneClass == NULL
NullSceneClass == [null |-> TRUE, hasCheckedLabels |-> FALSE, CheckedLabels |-> {}]

NoLabelModel ==
    /\ isSelected = <<>>
    /\ sceneClass = NullSceneClass
    /\ savedRows = <<>>
    /\ m_giftiLabelTable = <<>>
    /\ rootItem = <<>>
    /\ m_labelKeyToLabelSelectionItem = {}
    /\ m_buildTreeMissingLabelNames = {}
    /\ m_hierarchyParentNames = {}
    /\ m_validFlag = FALSE

\* A ClusterContainer as its constructor leaves it.
NoClusters ==
    /\ m_clusters = <<>>
    /\ m_mapWithClustersSortedByKey = <<>>
    /\ m_mapWithClustersSortedByName = <<>>
    /\ m_vectorClustersSortedByKey = <<>>
    /\ m_vectorClustersSortedByName = <<>>
    /\ m_keysSorted = <<>>

(***************************************************************************)
(* Bounds of the model.                                                    *)
(***************************************************************************)
\* Items in a hierarchy, the implicit root not counted.
MaxItems == 3
\* Children and extraInfo pairs, in all, of an Item handed to addItem.
MaxCarried == 1
\* Start and end elements of a document given to readXML.
MaxXmlTokens == 8
\* Objects in a JSON document given to readJsonFile.
MaxJsonObjects == 3
\* Clusters in a ClusterContainer.
MaxClusters == 3

Names == {"a", "b"}
NameInputs == Names \cup {""}
Keys == {"k", "name", "children"}
Values == {"v"}

NoCall == [op |-> "none"]

(***************************************************************************)
(* OrderedKVStore: an ordered list of <<key, value>> pairs, one per key.   *)
(***************************************************************************)
KVEmpty == <<>>

KVHas(store, key) == \E i \in 1..Len(store) : store[i][1] = key

KVSet(store, key, value) ==
    IF KVHas(store, key)
    THEN [i \in 1..Len(store) |->
            IF store[i][1] = key THEN <<key, value>> ELSE store[i]]
    ELSE Append(store, <<key, value>>)

KVPairs(store) == {store[i] : i \in 1..Len(store)}

(***************************************************************************)
(* CaretHierarchy::Item                                                    *)
(***************************************************************************)
NewItem(name) == [name |-> name, extraInfo |-> KVEmpty, children |-> <<>>]

EmptyItem == NewItem("")

RECURSIVE ItemAdd(_, _, _)
RECURSIVE ItemAddChildren(_, _, _, _)

\* A variant of Item::add that inserts the new item before its siblings.
ItemAddFront(self, toAdd, parent) ==
    IF self.name = parent
    THEN [ok |-> TRUE,
          item |-> [self EXCEPT !.children = <<toAdd>> \o @],
          ptr |-> <<1>>]
    ELSE ItemAddChildren(self, toAdd, parent, Len(self.children))

\* Item::add: ok, the item after the call, and the path from self to the
\* item added (the place *extraInfoOut points into).
ItemAdd(self, toAdd, parent) ==
    IF self.name = parent
    THEN [ok |-> TRUE,
          item |-> [self EXCEPT !.children = Append(@, toAdd)],
          ptr |-> <<Len(self.children) + 1>>]
    ELSE ItemAddChildren(self, toAdd, parent, Len(self.children))

\* The loop of Item::add over children.rbegin() .. children.rend(); i is the
\* index of the child the reverse iterator stands on, 0 at rend().
ItemAddChildren(self, toAdd, parent, i) ==
    IF i = 0
    THEN [ok |-> FALSE, item |-> self, ptr |-> <<>>]
    ELSE LET r == ItemAdd(self.children[i], toAdd, parent)
         IN  IF r.ok
             THEN [ok |-> TRUE,
                   item |-> [self EXCEPT !.children[i] = r.item],
                   ptr |-> <<i>> \o r.ptr]
             ELSE ItemAddChildren(self, toAdd, parent, i - 1)

(***************************************************************************)
(* CaretHierarchy, as a value [root, used], so that the parsers can be     *)
(* written as functions of it.                                             *)
(***************************************************************************)
\* A variant of clear that leaves the name "a" among the used names.
ClearedKeepsName == [root |-> EmptyItem, used |-> {"", "a"}]

Cleared == [root |-> EmptyItem, used |-> {""}]

\* A variant of addItem without the early return on an unused parent name.
addItemNoParentCheck(h, toAdd, parent) ==
    IF toAdd.name \in h.used
    THEN [ok |-> FALSE, h |-> h, ptr |-> <<>>]
    ELSE LET r == ItemAdd(h.root, toAdd, parent)
         IN  IF r.ok
             THEN [ok |-> TRUE,
                   h |-> [root |-> r.item, used |-> h.used \cup {toAdd.name}],
                   ptr |-> r.ptr]
             ELSE [ok |-> FALSE, h |-> h, ptr |-> <<>>]

addItem(h, toAdd, parent) ==
    IF toAdd.name \in h.used
    THEN [ok |-> FALSE, h |-> h, ptr |-> <<>>]
    ELSE IF parent \notin h.used
    THEN [ok |-> FALSE, h |-> h, ptr |-> <<>>]
    ELSE LET r == ItemAdd(h.root, toAdd, parent)
         IN  IF r.ok
             THEN [ok |-> TRUE,
                   h |-> [root |-> r.item, used |-> h.used \cup {toAdd.name}],
                   ptr |-> r.ptr]
             ELSE [ok |-> FALSE, h |-> h, ptr |-> <<>>]

(***************************************************************************)
(* Views of a tree used to state properties.                               *)
(***************************************************************************)
RECURSIVE ItemCount(_)
ItemCount(item) ==
    LET RECURSIVE Sum(_)
        Sum(i) == IF i = 0 THEN 0 ELSE ItemCount(item.children[i]) + Sum(i - 1)
    IN  1 + Sum(Len(item.children))

\* Every item below and including `item`, with its path of child indices.
RECURSIVE NodesAt(_, _)
NodesAt(item, path) ==
    {[path |-> path, name |-> item.name, info |-> KVPairs(item.extraInfo)]}
    \cup UNION {NodesAt(item.children[i], Append(path, i)) :
                    i \in 1..Len(item.children)}

Nodes(item) == NodesAt(item, <<>>)

IsChildPath(p, q) == Len(q) = Len(p) + 1 /\ SubSeq(q, 1, Len(p)) = p

NumChildrenAt(item, p) ==
    Cardinality({n \in Nodes(item) : IsChildPath(p, n.path)})

(***************************************************************************)
(* The Items a caller can hand to addItem.                                 *)
(***************************************************************************)
RECURSIVE Stores(_)
Stores(n) ==
    IF n = 0 THEN {KVEmpty}
    ELSE Stores(n - 1) \cup
         {KVSet(s, k, v) : s \in Stores(n - 1), k \in Keys, v \in Values}

RECURSIVE ChildLists(_)
ChildLists(n) ==
    IF n = 0 THEN {<<>>}
    ELSE ChildLists(n - 1) \cup
         {Append(c, NewItem(x)) : c \in ChildLists(n - 1), x \in NameInputs}

InputItems ==
    {[name |-> n, extraInfo |-> ec[1], children |-> ec[2]] :
        n \in NameInputs,
        ec \in {x \in Stores(MaxCarried) \X ChildLists(MaxCarried) :
                    Len(x[1]) + Len(x[2]) <= MaxCarried}}

(***************************************************************************)
(* XML: the document as the sequence of start and end elements that        *)
(* QXmlStreamWriter writes and QXmlStreamReader delivers.                  *)
(***************************************************************************)
StartElement(tag, attrs) == [kind |-> "start", tag |-> tag, attrs |-> attrs]
EndElement(tag) == [kind |-> "end", tag |-> tag, attrs |-> <<>>]
InvalidToken == [kind |-> "invalid", tag |-> "", attrs |-> <<>>]

\* QXmlStreamAttributes::hasAttribute and ::value(name).toString()
HasAttribute(attrs, name) == \E i \in 1..Len(attrs) : attrs[i][1] = name

AttrValue(attrs, name) ==
    IF HasAttribute(attrs, name)
    THEN attrs[CHOOSE i \in 1..Len(attrs) :
                 /\ attrs[i][1] = name
                 /\ \A j \in 1..(i - 1) : attrs[j][1] # name][2]
    ELSE ""

RECURSIVE XMLWriteHelper(_)
XMLWriteHelper(item) ==
    LET RECURSIVE WriteChildren(_)
        WriteChildren(i) ==
            IF i > Len(item.children) THEN <<>>
            ELSE XMLWriteHelper(item.children[i]) \o WriteChildren(i + 1)
        kvdata == item.extraInfo
        RECURSIVE WriteInfoItems(_)
        WriteInfoItems(i) ==
            IF i > Len(kvdata) THEN <<>>
            ELSE <<StartElement("InfoItem", <<<<"Key", kvdata[i][1]>>,
                                              <<"Value", kvdata[i][2]>>>>),
                   EndElement("InfoItem")>> \o WriteInfoItems(i + 1)
    IN  IF item.name = ""
        THEN WriteChildren(1)
        ELSE <<StartElement("Item", <<<<"Name", item.name>>>>)>>
             \o (IF kvdata # <<>>
                 THEN <<StartElement("Info", <<>>)>> \o WriteInfoItems(1)
                      \o <<EndElement("Info")>>
                 ELSE <<>>)
             \o WriteChildren(1)
             \o <<EndElement("Item")>>

writeXML(root) ==
    <<StartElement("CaretHierarchy", <<<<"Version", "1">>>>)>>
    \o XMLWriteHelper(root)
    \o <<EndElement("CaretHierarchy")>>

\* The extraInfo of the Item at `path` below `item`, read and replaced.
RECURSIVE InfoAt(_, _)
InfoAt(item, path) ==
    IF path = <<>> THEN item.extraInfo
    ELSE InfoAt(item.children[Head(path)], Tail(path))

RECURSIVE SetInfoAt(_, _, _)
SetInfoAt(item, path, store) ==
    IF path = <<>> THEN [item EXCEPT !.extraInfo = store]
    ELSE [item EXCEPT !.children[Head(path)] =
                          SetInfoAt(@, Tail(path), store)]

NoError == [prefix |-> "", what |-> ""]

\* The state of a readXML call, as a value: the hierarchy and the locals.
ReaderStart ==
    [h |-> Cleared, parents |-> <<"">>, addedInfo |-> <<>>,
     haveRoot |-> FALSE, rootEnded |-> FALSE, staleInfo |-> {},
     pc |-> "readXML", err |-> NoError]

\* throw CaretException(what) inside the try block of readXML, caught and
\* thrown again with the prefix.
Throw(rs, what) ==
    [rs EXCEPT !.pc = "error",
               !.err = [prefix |-> "Hierarchy XML error: ", what |-> what]]

Back(s) == s[Len(s)]
PopBack(s) == SubSeq(s, 1, Len(s) - 1)

\* children.push_back(toAdd) may move the Items the vector held: the
\* positions of addedInfo that point into the vector the Item at ptr was
\* pushed to.
Grown(infos, ptr) ==
    {i \in 1..Len(infos) : PopBack(infos[i]) = PopBack(ptr)}

\* A variant of the start-element branch that accepts any Version.
readXMLStartElementAnyVersion(rs, tag, attrs) ==
    IF tag = "CaretHierarchy"
    THEN IF rs.haveRoot THEN Throw(rs, "found root more than once")
         ELSE [rs EXCEPT !.haveRoot = TRUE]
    ELSE IF tag = "Item"
    THEN IF ~rs.haveRoot THEN Throw(rs, "missing root element")
         ELSE IF rs.rootEnded THEN Throw(rs, "Item tag after closing root tag")
         ELSE LET itemName == AttrValue(attrs, "Name")
                  r == addItem(rs.h, NewItem(itemName), Back(rs.parents))
              IN  IF ~r.ok THEN Throw(rs, "failed to add item")
                  ELSE [rs EXCEPT !.h = r.h,
                                  !.staleInfo = @ \cup Grown(rs.addedInfo, r.ptr),
                                  !.addedInfo = Append(@, r.ptr),
                                  !.parents = Append(@, itemName)]
    ELSE IF tag = "Info"
    THEN IF rs.addedInfo = <<>>
         THEN Throw(rs, "Info element not allowed at root level")
         ELSE [rs EXCEPT !.h.root = SetInfoAt(@, Back(rs.addedInfo), KVEmpty),
                         !.pc = "Info"]
    ELSE Throw(rs, "unexpected element")

\* readXML, the branch xml.isStartElement() of its loop.
readXMLStartElement(rs, tag, attrs) ==
    IF tag = "CaretHierarchy"
    THEN IF rs.haveRoot THEN Throw(rs, "found root more than once")
         ELSE IF ~HasAttribute(attrs, "Version")
         THEN Throw([rs EXCEPT !.haveRoot = TRUE], "no Version attribute")
         ELSE IF AttrValue(attrs, "Version") # "1"
         THEN Throw([rs EXCEPT !.haveRoot = TRUE], "unknown hierarchy version")
         ELSE [rs EXCEPT !.haveRoot = TRUE]
    ELSE IF tag = "Item"
    THEN IF ~rs.haveRoot THEN Throw(rs, "missing root element")
         ELSE IF rs.rootEnded THEN Throw(rs, "Item tag after closing root tag")
         ELSE LET itemName == AttrValue(attrs, "Name")
                  r == addItem(rs.h, NewItem(itemName), Back(rs.parents))
              IN  IF ~r.ok THEN Throw(rs, "failed to add item")
                  ELSE [rs EXCEPT !.h = r.h,
                                  !.staleInfo = @ \cup Grown(rs.addedInfo, r.ptr),
                                  !.addedInfo = Append(@, r.ptr),
                                  !.parents = Append(@, itemName)]
    ELSE IF tag = "Info"
    THEN IF rs.addedInfo = <<>>
         THEN Throw(rs, "Info element not allowed at root level")
         \* addedInfo.back()->readXML(xml) starts with clear()
         ELSE [rs EXCEPT !.h.root = SetInfoAt(@, Back(rs.addedInfo), KVEmpty),
                         !.pc = "Info"]
    ELSE Throw(rs, "unexpected element")

\* A variant of the end-element branch that pops addedInfo only.
readXMLEndElementKeepsParent(rs, tag) ==
    IF tag = "Item"
    THEN [rs EXCEPT !.addedInfo = PopBack(@)]
    ELSE [rs EXCEPT !.rootEnded = TRUE]

\* readXML, the branch xml.isEndElement() of its loop.
readXMLEndElement(rs, tag) ==
    IF tag = "Item"
    THEN [rs EXCEPT !.addedInfo = PopBack(@), !.parents = PopBack(@),
                    !.staleInfo = @ \ {Len(rs.addedInfo)}]
    ELSE [rs EXCEPT !.rootEnded = TRUE]

\* One token inside OrderedKVStore::readXML, called on *addedInfo.back().
KVReadXMLToken(rs, tok) ==
    IF tok.kind = "start"
    THEN IF tok.tag # "InfoItem"
         THEN Throw(rs, "found unexpected element in Info context")
         ELSE [rs EXCEPT !.h.root =
                 SetInfoAt(@, Back(rs.addedInfo),
                           KVSet(InfoAt(rs.h.root, Back(rs.addedInfo)),
                                 AttrValue(tok.attrs, "Key"),
                                 AttrValue(tok.attrs, "Value")))]
    ELSE IF tok.tag # "InfoItem"
    THEN [rs EXCEPT !.pc = "readXML"]   \* return; the caller's readNext() eats it
    ELSE rs

\* One token of the document, wherever the reader stands.
readXMLToken(rs, tok) ==
    IF tok.kind = "invalid"
    THEN [rs EXCEPT !.pc = "error",  \* atEnd() ends the loops, hasError() throws
                    !.err = [prefix |-> "Hierarchy XML error: ",
                             what |-> "xml.errorString()"]]
    ELSE IF rs.pc = "Info" THEN KVReadXMLToken(rs, tok)
    ELSE IF tok.kind = "start" THEN readXMLStartElement(rs, tok.tag, tok.attrs)
    ELSE readXMLEndElement(rs, tok.tag)

\* readXML(const QString&): the whole call on a document.
RECURSIVE readXMLTokens(_, _, _)
readXMLTokens(rs, doc, i) ==
    IF rs.pc = "error" THEN rs
    ELSE IF i > Len(doc) THEN [rs EXCEPT !.pc = "done"]
    ELSE readXMLTokens(readXMLToken(rs, doc[i]), doc, i + 1)

readXMLString(doc) == readXMLTokens(ReaderStart, doc, 1)

XmlIdle ==
    /\ parents = <<>>
    /\ addedInfo = <<>>
    /\ haveRoot = FALSE
    /\ rootEnded = FALSE
    /\ staleInfo = {}
    /\ pc = "idle"
    /\ err = NoError
    /\ xmlDoc = <<>>

(***************************************************************************)
(* JSON: a QJsonValue is its type with the bool, the double, the string,   *)
(* the elements (Array) or the members (Object) it holds; the members are  *)
(* <<key, value>> pairs in key order, one per key, as QJsonObject keeps    *)
(* them.                                                                   *)
(***************************************************************************)
JValueOf(type, b, d, str, elements, members) ==
    [type |-> type, b |-> b, d |-> d, s |-> str, elements |-> elements,
     members |-> members]

JUndefined == JValueOf("Undefined", FALSE, 0, "", <<>>, <<>>)
JNull == JValueOf("Null", FALSE, 0, "", <<>>, <<>>)
JBool(b) == JValueOf("Bool", b, 0, "", <<>>, <<>>)
JDouble(d) == JValueOf("Double", FALSE, d, "", <<>>, <<>>)
JString(str) == JValueOf("String", FALSE, 0, str, <<>>, <<>>)
JArray(elements) == JValueOf("Array", FALSE, 0, "", elements, <<>>)
JObject(members) == JValueOf("Object", FALSE, 0, "", <<>>, members)

\* The keys of the model in the order QJsonObject sorts them.
KeyOrder == <<"children", "k", "name">>

JContains(members, key) == \E i \in 1..Len(members) : members[i][1] = key

JValue(members, key) ==
    IF JContains(members, key)
    THEN members[CHOOSE i \in 1..Len(members) : members[i][1] = key][2]
    ELSE JUndefined

\* QJsonObject::insert: the value of an existing key is replaced.
JInsert(members, key, value) ==
    LET RECURSIVE Build(_)
        Build(i) ==
            IF i > Len(KeyOrder) THEN <<>>
            ELSE LET k == KeyOrder[i]
                 IN  (IF k = key THEN <<<<k, value>>>>
                      ELSE IF JContains(members, k)
                      THEN <<<<k, JValue(members, k)>>>>
                      ELSE <<>>) \o Build(i + 1)
    IN  Build(1)

\* QJsonValue::toString(), ::toObject(): the default for another type.
JToString(value) == IF value.type = "String" THEN value.s ELSE ""
JToObject(value) == IF value.type = "Object" THEN value.members ELSE <<>>

\* AString::number(d, 'g', 16) for the whole numbers of the model.
NumberG16(d) == ToString(d)

JsonThrow(st, what) == [st EXCEPT !.err = [prefix |-> "", what |-> what]]

\* A variant of the loop that stores the `name` member like any other.
RECURSIVE handleJsonKeysStoresName(_, _, _, _)
handleJsonKeysStoresName(thisobj, i, extraInfo, warnings) ==
    IF i > Len(thisobj) THEN [extraInfo |-> extraInfo, warnings |-> warnings]
    ELSE LET key == thisobj[i][1]
             valueobj == thisobj[i][2]
             stringish == valueobj.type \in {"Bool", "Double", "String"}
             value == IF valueobj.type = "Bool"
                      THEN (IF valueobj.b THEN "True" ELSE "False")
                      ELSE IF valueobj.type = "Double"
                      THEN NumberG16(valueobj.d)
                      ELSE valueobj.s
         IN  IF key = "children" \/ ~stringish
             THEN handleJsonKeysStoresName(thisobj, i + 1, extraInfo, warnings)
             ELSE handleJsonKeysStoresName(thisobj, i + 1,
                                           KVSet(extraInfo, key, value), warnings)

\* The loop of handleJsonChild over the keys of thisobj, from the i-th on:
\* the extraInfo of toAdd and the warnings logged.
RECURSIVE handleJsonKeys(_, _, _, _)
handleJsonKeys(thisobj, i, extraInfo, warnings) ==
    IF i > Len(thisobj) THEN [extraInfo |-> extraInfo, warnings |-> warnings]
    ELSE LET key == thisobj[i][1]
             valueobj == thisobj[i][2]
             stringish == valueobj.type \in {"Bool", "Double", "String"}
             value == IF valueobj.type = "Bool"
                      THEN (IF valueobj.b THEN "True" ELSE "False")
                      ELSE IF valueobj.type = "Double" THEN NumberG16(valueobj.d)
                      ELSE IF valueobj.type = "String" THEN valueobj.s
                      ELSE ""
         IN  IF key = "name"
             THEN handleJsonKeys(thisobj, i + 1, extraInfo, warnings)
             ELSE IF key = "children"
             THEN handleJsonKeys(thisobj, i + 1, extraInfo,
                    IF stringish
                    THEN Append(warnings, <<"non-array children", key>>)
                    ELSE warnings)
             ELSE IF ~stringish
             THEN handleJsonKeys(thisobj, i + 1, extraInfo,
                    Append(warnings, <<"non-stringlike value", key>>))
             ELSE handleJsonKeys(thisobj, i + 1, KVSet(extraInfo, key, value),
                                 warnings)

RECURSIVE handleJsonChild(_, _, _)
RECURSIVE recurseJsonArray(_, _, _, _)

\* recurseJsonArrayish; st is [h, err, warnings], an exception ends the walk.
recurseJsonArrayish(st, elements, parent) ==
    IF elements.type = "Array"
    THEN recurseJsonArray(st, elements.elements, parent, 1)
    ELSE handleJsonChild(st, JToObject(elements), parent)

\* The loop of recurseJsonArrayish over myArray, from the i-th element on.
recurseJsonArray(st, myArray, parent, i) ==
    IF st.err # NoError \/ i > Len(myArray) THEN st
    ELSE recurseJsonArray(handleJsonChild(st, JToObject(myArray[i]), parent),
                          myArray, parent, i + 1)

\* A variant of handleJsonChild that goes on when addItem refuses the item.
handleJsonChildIgnoreAddFailure(st, thisobj, parent) ==
    LET name == JToString(JValue(thisobj, "name"))
        scan == handleJsonKeys(thisobj, 1, KVEmpty, st.warnings)
        toAdd == [name |-> name, extraInfo |-> scan.extraInfo, children |-> <<>>]
        r == addItem(st.h, toAdd, parent)
        added == [st EXCEPT !.h = r.h, !.warnings = scan.warnings]
    IN  IF name = ""
        THEN JsonThrow(st, "empty, non-string, or missing 'name' element")
        ELSE IF JContains(thisobj, "children")
        THEN recurseJsonArrayish(added, JValue(thisobj, "children"), name)
        ELSE added

handleJsonChild(st, thisobj, parent) ==
    LET name == JToString(JValue(thisobj, "name"))
        scan == handleJsonKeys(thisobj, 1, KVEmpty, st.warnings)
        toAdd == [name |-> name, extraInfo |-> scan.extraInfo, children |-> <<>>]
        r == addItem(st.h, toAdd, parent)
        added == [st EXCEPT !.h = r.h, !.warnings = scan.warnings]
    IN  IF name = ""
        THEN JsonThrow(st, "empty, non-string, or missing 'name' element")
        ELSE IF ~r.ok
        THEN JsonThrow([st EXCEPT !.warnings = scan.warnings],
                       "failed to add hierarchy item")
        ELSE IF JContains(thisobj, "children")
        THEN recurseJsonArrayish(added, JValue(thisobj, "children"), name)
        ELSE added

RECURSIVE writeJsonHelper(_)
writeJsonHelper(localroot) ==
    LET RECURSIVE InsertInfo(_, _, _)
        InsertInfo(childObj, extraVec, i) ==
            IF i > Len(extraVec) THEN childObj
            ELSE InsertInfo(JInsert(childObj, extraVec[i][1],
                                    JString(extraVec[i][2])),
                            extraVec, i + 1)
        ChildObj(child) ==
            LET withInfo == InsertInfo(JInsert(<<>>, "name", JString(child.name)),
                                       child.extraInfo, 1)
            IN  IF Len(child.children) > 0
                THEN JInsert(withInfo, "children", JArray(writeJsonHelper(child)))
                ELSE withInfo
    IN  [i \in 1..Len(localroot.children) |->
            JObject(ChildObj(localroot.children[i]))]

\* writeJsonFile: the document is the array of the root's children.
writeJsonFile(root) == JArray(writeJsonHelper(root))

\* readJsonFile on a document: clear(), then the walk from the top level.
readJsonFile(doc) ==
    recurseJsonArrayish([h |-> Cleared, err |-> NoError, warnings |-> <<>>],
                        doc, "")

(***************************************************************************)
(* Specification of the hierarchy under addItem, clear and the round trips *)
(* through XML and JSON.  A caller makes one call at a time: `last` holds  *)
(* the call that has just returned, until the caller has taken its result. *)
(***************************************************************************)
InitHierarchy ==
    /\ m_root = EmptyItem
    /\ m_usedNames = {""}
    /\ last = NoCall
    /\ XmlIdle
    /\ jsonDoc = JUndefined
    /\ NoClusters
    /\ NoLabelModel

AddItem ==
    \E toAdd \in InputItems, parent \in NameInputs :
        /\ last = NoCall
        /\ ItemCount(m_root) - 1 + ItemCount(toAdd) <= MaxItems
        /\ LET r == addItem([root |-> m_root, used |-> m_usedNames], toAdd, parent)
           IN  /\ m_root' = r.h.root
               /\ m_usedNames' = r.h.used
               /\ last' = [op |-> "addItem", toAdd |-> toAdd, parent |-> parent,
                           ok |-> r.ok, root |-> m_root, used |-> m_usedNames]
               /\ UNCHANGED <<xvars, jsonDoc, cvars, lvars>>

Clear ==
    /\ last = NoCall
    /\ m_root' = Cleared.root
    /\ m_usedNames' = Cleared.used
    /\ last' = [op |-> "clear", root |-> m_root, used |-> m_usedNames]
    /\ UNCHANGED <<xvars, jsonDoc, cvars, lvars>>

\* readXML(writeXMLToString()) on the hierarchy.
XmlRoundTrip ==
    /\ last = NoCall
    /\ LET r == readXMLString(writeXML(m_root))
       IN  /\ m_root' = r.h.root
           /\ m_usedNames' = r.h.used
           /\ last' = [op |-> "xmlRoundTrip", root |-> m_root,
                       used |-> m_usedNames, err |-> r.err]
    /\ UNCHANGED <<xvars, jsonDoc, cvars, lvars>>

\* readJsonFile on the file writeJsonFile wrote.
JsonRoundTrip ==
    /\ last = NoCall
    /\ LET r == readJsonFile(writeJsonFile(m_root))
       IN  /\ m_root' = r.h.root
           /\ m_usedNames' = r.h.used
           /\ last' = [op |-> "jsonRoundTrip", root |-> m_root,
                       used |-> m_usedNames, err |-> r.err]
    /\ UNCHANGED <<xvars, jsonDoc, cvars, lvars>>

\* The call has returned and the caller has taken its result: the next
\* call can be made.
Return ==
    /\ last # NoCall
    /\ last' = NoCall
    /\ UNCHANGED <<m_root, m_usedNames, xvars, jsonDoc, cvars, lvars>>

NextHierarchy == AddItem \/ Clear \/ XmlRoundTrip \/ JsonRoundTrip \/ Return

SpecHierarchy == InitHierarchy /\ [][NextHierarchy]_vars

\* The Items that carry no children of their own.
PlainItems == {toAdd \in InputItems : toAdd.children = <<>>}

\* addItem with an Item that carries no children.
AddPlainItem ==
    \E toAdd \in PlainItems, parent \in NameInputs :
        /\ last = NoCall
        /\ ItemCount(m_root) - 1 + ItemCount(toAdd) <= MaxItems
        /\ LET r == addItem([root |-> m_root, used |-> m_usedNames], toAdd, parent)
           IN  /\ m_root' = r.h.root
               /\ m_usedNames' = r.h.used
               /\ last' = [op |-> "addItem", toAdd |-> toAdd, parent |-> parent,
                           ok |-> r.ok, root |-> m_root, used |-> m_usedNames]
               /\ UNCHANGED <<xvars, jsonDoc, cvars, lvars>>

NextPlain == AddPlainItem \/ Clear \/ Return

SpecPlain == InitHierarchy /\ [][NextPlain]_vars

(***************************************************************************)
(* Specification of readXML reading a document token by token.  The        *)
(* reader delivers the start and end elements of a well-nested document    *)
(* (any number of top-level elements, since the reader may be handed over  *)
(* inside a larger document), or reports the text as not well-formed.      *)
(***************************************************************************)
Tags == {"CaretHierarchy", "Item", "Info", "InfoItem", "Other"}

StartTokens ==
    {StartElement("CaretHierarchy", a) :
        a \in {<<>>, <<<<"Version", "1">>>>, <<<<"Version", "2">>>>}}
    \cup {StartElement("Item", a) :
        a \in {<<>>} \cup {<<<<"Name", n>>>> : n \in NameInputs}}
    \cup {StartElement("InfoItem", <<<<"Key", k>>, <<"Value", v>>>>) :
        k \in Keys, v \in Values}
    \cup {StartElement("Info", <<>>), StartElement("Other", <<>>)}

\* The elements open after the first n tokens of doc, innermost last.
RECURSIVE OpenTags(_, _)
OpenTags(doc, n) ==
    IF n = 0 THEN <<>>
    ELSE LET open == OpenTags(doc, n - 1)
         IN  IF doc[n].kind = "start" THEN Append(open, doc[n].tag)
             ELSE IF doc[n].kind = "end" THEN PopBack(open)
             ELSE open

ReaderState ==
    [h |-> [root |-> m_root, used |-> m_usedNames], parents |-> parents,
     addedInfo |-> addedInfo, haveRoot |-> haveRoot, rootEnded |-> rootEnded,
     staleInfo |-> staleInfo,
     pc |-> pc, err |-> err]

SetReaderState(rs) ==
    /\ m_root' = rs.h.root
    /\ m_usedNames' = rs.h.used
    /\ parents' = rs.parents
    /\ addedInfo' = rs.addedInfo
    /\ haveRoot' = rs.haveRoot
    /\ rootEnded' = rs.rootEnded
    /\ staleInfo' = rs.staleInfo
    /\ pc' = rs.pc
    /\ err' = rs.err

InitXml ==
    /\ m_root = EmptyItem
    /\ m_usedNames = {""}
    /\ last = NoCall
    /\ XmlIdle
    /\ jsonDoc = JUndefined
    /\ NoClusters
    /\ NoLabelModel

\* readXML is called: clear(), the stacks and the flags are set up.
XmlBegin ==
    /\ pc \in {"idle", "done", "error"}
    /\ SetReaderState(ReaderStart)
    /\ xmlDoc' = <<>>
    /\ UNCHANGED <<last, jsonDoc, cvars, lvars>>

XmlStartElement ==
    /\ pc \in {"readXML", "Info"}
    /\ Len(xmlDoc) < MaxXmlTokens
    /\ \E tok \in StartTokens :
          /\ SetReaderState(readXMLToken(ReaderState, tok))
          /\ xmlDoc' = Append(xmlDoc, tok)
    /\ UNCHANGED <<last, jsonDoc, cvars, lvars>>

XmlEndElement ==
    /\ pc \in {"readXML", "Info"}
    /\ Len(xmlDoc) < MaxXmlTokens
    /\ OpenTags(xmlDoc, Len(xmlDoc)) # <<>>
    /\ LET tok == EndElement(Back(OpenTags(xmlDoc, Len(xmlDoc))))
       IN  /\ SetReaderState(readXMLToken(ReaderState, tok))
           /\ xmlDoc' = Append(xmlDoc, tok)
    /\ UNCHANGED <<last, jsonDoc, cvars, lvars>>

\* xml.atEnd() with no error: the loop ends and readXML returns.
XmlAtEnd ==
    /\ pc = "readXML"
    /\ xmlDoc # <<>>
    /\ OpenTags(xmlDoc, Len(xmlDoc)) = <<>>
    /\ pc' = "done"
    /\ UNCHANGED <<m_root, m_usedNames, last, parents, addedInfo, haveRoot,
                   rootEnded, staleInfo, err, xmlDoc, jsonDoc, cvars, lvars>>

\* The text is not well-formed at this point.
XmlInvalid ==
    /\ pc \in {"readXML", "Info"}
    /\ Len(xmlDoc) < MaxXmlTokens
    /\ SetReaderState(readXMLToken(ReaderState, InvalidToken))
    /\ xmlDoc' = Append(xmlDoc, InvalidToken)
    /\ UNCHANGED <<last, jsonDoc, cvars, lvars>>

NextXml == XmlBegin \/ XmlStartElement \/ XmlEndElement \/ XmlAtEnd \/ XmlInvalid

SpecXml == InitXml /\ [][NextXml]_vars

(***************************************************************************)
(* Specification of readJsonFile on the documents of JsonDocs.             *)
(***************************************************************************)
JMembers(name, k, children) ==
    (IF children = JUndefined THEN <<>> ELSE <<<<"children", children>>>>)
    \o (IF k = JUndefined THEN <<>> ELSE <<<<"k", k>>>>)
    \o (IF name = JUndefined THEN <<>> ELSE <<<<"name", name>>>>)

\* What the `name` member of an object can be: absent, not a string, empty,
\* or a name.
NameValues ==
    {JUndefined, JDouble(7), JString("")} \cup {JString(n) : n \in Names}

\* What another member can be: absent, a scalar, or not a scalar.
MemberValues ==
    {JUndefined, JString("v"), JBool(TRUE), JBool(FALSE), JDouble(12),
     JNull, JArray(<<>>), JObject(<<>>)}

\* A `children` member that is not an array of objects or an object.
ScalarChildren == {JString("x"), JDouble(7), JBool(TRUE), JNull}

\* A \cup B, both sets counted (and so sorted) first: the union then looks
\* the elements up by bisection.
SortedCup(A, B) ==
    CHOOSE r \in {IF Cardinality(x[1]) + Cardinality(x[2]) >= 0
                      THEN x[1] \cup x[2] ELSE {} : x \in {<<A, B>>}} : TRUE

\* The ways the lists of child objects in F are written as a `children`
\* member: an array, the object itself when there is one, nothing or an
\* empty array when there is none.
ChildrenValues(F) ==
    SortedCup({JArray(f) : f \in F},
              {f[1] : f \in {g \in F : Len(g) = 1}}
                  \cup (IF <<>> \in F THEN {JUndefined} ELSE {}))

\* The objects with a `name` and one of the children lists of F.
NameObjects(F) ==
    {JObject(JMembers(name, JUndefined, c)) :
        name \in NameValues, c \in ChildrenValues(F)}

\* t[m + 1] being the lists of exactly m objects in all for every m < k, the
\* lists of exactly k objects whose first object has fewer than j descendants.
RECURSIVE ForestsOf(_, _, _)
ForestsOf(t, k, j) ==
    IF j = 0 THEN {}
    ELSE SortedCup(ForestsOf(t, k, j - 1),
                   {<<x>> \o rest : x \in NameObjects(t[j]), rest \in t[k - j + 1]})

\* The table of the lists of exactly 0..n objects.
RECURSIVE ForestsUpTo(_, _)
ForestsUpTo(tbl, n) ==
    CHOOSE r \in {IF Len(t) > n THEN t
                  ELSE ForestsUpTo(Append(t, ForestsOf(t, Len(t), Len(t))), n) :
                  t \in {tbl}} :
        TRUE

RECURSIVE Cup(_, _)
Cup(t, n) == IF n = 0 THEN {} ELSE SortedCup(Cup(t, n - 1), t[n])

\* The lists of at most MaxJsonObjects objects.
NameForests ==
    CHOOSE F \in {Cup(t, Len(t)) : t \in {ForestsUpTo(<<{<<>>}>>, MaxJsonObjects)}} :
        TRUE

NameDocs == ChildrenValues(NameForests) \ {JUndefined}

\* Documents of one item "a" with every kind of member, before an item "b".
FieldDocs ==
    {JArray(<<JObject(JMembers(JString("a"), k, c))>> \o rest) :
        k \in MemberValues,
        c \in ScalarChildren \cup {JUndefined}
              \cup {JArray(<<JObject(JMembers(JString("c"), k2, JUndefined))>>) :
                        k2 \in {JUndefined, JString("v"), JArray(<<>>)}},
        rest \in {<<>>, <<JObject(JMembers(JString("b"), JUndefined, JUndefined))>>}}

JsonDocs == SortedCup(NameDocs, FieldDocs)

\* A hierarchy object and a file holding one of the documents.
InitJson ==
    /\ m_root = EmptyItem
    /\ m_usedNames = {""}
    /\ last = NoCall
    /\ XmlIdle
    /\ jsonDoc \in JsonDocs
    /\ NoClusters
    /\ NoLabelModel

ReadJsonFile ==
    /\ last = NoCall
    /\ LET r == readJsonFile(jsonDoc)
       IN  /\ m_root' = r.h.root
           /\ m_usedNames' = r.h.used
           /\ err' = r.err
           /\ last' = [op |-> "readJsonFile", warnings |-> r.warnings]
    /\ UNCHANGED <<parents, addedInfo, haveRoot, rootEnded, staleInfo, pc, xmlDoc, jsonDoc,
                   cvars, lvars>>

NextJson == ReadJsonFile

SpecJson == InitJson /\ [][NextJson]_vars

(***************************************************************************)
(* ClusterContainer, as a value of its fields.                             *)
(***************************************************************************)
ClusterKeys == {1, 2}

\* The cluster names of the model, in the order AString compares them.
ClusterNameOrder == <<"Left", "Right">>

ClusterNames == {ClusterNameOrder[i] : i \in 1..Len(ClusterNameOrder)}

NameIndex(name) == CHOOSE i \in 1..Len(ClusterNameOrder) : ClusterNameOrder[i] = name

NewCluster(key, name) == [m_key |-> key, m_name |-> name]

EmptyContainer ==
    [m_clusters |-> <<>>,
     m_mapWithClustersSortedByKey |-> <<>>,
     m_mapWithClustersSortedByName |-> <<>>,
     m_vectorClustersSortedByKey |-> <<>>,
     m_vectorClustersSortedByName |-> <<>>,
     m_keysSorted |-> <<>>]

\* std::multimap::insert: after the entries whose key is not greater, so
\* that equal keys stay in the order of insertion.  rank orders the keys.
MultimapInsert(map, rank, entry) ==
    LET n == Cardinality({i \in 1..Len(map) : rank[map[i][1]] <= rank[entry[1]]})
    IN  SubSeq(map, 1, n) \o <<entry>> \o SubSeq(map, n + 1, Len(map))

\* std::multimap::equal_range, the mapped values of the range.
EqualRange(map, key) ==
    LET Sel(e) == e[1] = key
        range == SelectSeq(map, Sel)
    IN  [i \in 1..Len(range) |-> range[i][2]]

KeyRank == [k \in Int |-> k]
NameRank == [n \in ClusterNames |-> NameIndex(n)]

\* A variant of clearSortedContainers that keeps the by-key multimap.
clearSortedContainersKeepKeyMap(c) ==
    [c EXCEPT !.m_mapWithClustersSortedByName = <<>>,
              !.m_vectorClustersSortedByKey = <<>>,
              !.m_vectorClustersSortedByName = <<>>,
              !.m_keysSorted = <<>>]

clearSortedContainers(c) ==
    [c EXCEPT !.m_mapWithClustersSortedByKey = <<>>,
              !.m_mapWithClustersSortedByName = <<>>,
              !.m_vectorClustersSortedByKey = <<>>,
              !.m_vectorClustersSortedByName = <<>>,
              !.m_keysSorted = <<>>]

\* A variant of addCluster that leaves the sorted containers as they are.
addClusterKeepSorted(c, cluster) ==
    [c EXCEPT !.m_clusters = Append(@, cluster)]

\* addCluster(cluster): m_clusters.emplace_back, then clearSortedContainers.
addCluster(c, cluster) ==
    clearSortedContainers([c EXCEPT !.m_clusters = Append(@, cluster)])

\* clear()
clearClusters(c) ==
    [clearSortedContainers(c) EXCEPT !.m_clusters = <<>>]

createMultimapClustersSortedByKey(c) ==
    LET RECURSIVE Fill(_, _)
        Fill(map, i) ==
            IF i > Len(c.m_clusters) THEN map
            ELSE Fill(MultimapInsert(map, KeyRank, <<c.m_clusters[i].m_key, i>>),
                      i + 1)
    IN  IF c.m_mapWithClustersSortedByKey = <<>> /\ c.m_clusters # <<>>
        THEN [c EXCEPT !.m_mapWithClustersSortedByKey = Fill(<<>>, 1)]
        ELSE c

createMultimapClustersSortedByName(c) ==
    LET RECURSIVE Fill(_, _)
        Fill(map, i) ==
            IF i > Len(c.m_clusters) THEN map
            ELSE Fill(MultimapInsert(map, NameRank, <<c.m_clusters[i].m_name, i>>),
                      i + 1)
    IN  IF c.m_mapWithClustersSortedByName = <<>> /\ c.m_clusters # <<>>
        THEN [c EXCEPT !.m_mapWithClustersSortedByName = Fill(<<>>, 1)]
        ELSE c

\* The getters: the container after the call (its caches filled) and the
\* value returned.
getClustersSortedByKey(c) ==
    LET c1 == createMultimapClustersSortedByKey(c)
        map == c1.m_mapWithClustersSortedByKey
        c2 == IF c1.m_vectorClustersSortedByKey = <<>> /\ map # <<>>
              THEN [c1 EXCEPT !.m_vectorClustersSortedByKey =
                                  [i \in 1..Len(map) |-> map[i][2]]]
              ELSE c1
    IN  [c |-> c2, ret |-> c2.m_vectorClustersSortedByKey]

getClustersSortedByName(c) ==
    LET c1 == createMultimapClustersSortedByName(c)
        map == c1.m_mapWithClustersSortedByName
        c2 == IF c1.m_vectorClustersSortedByName = <<>> /\ map # <<>>
              THEN [c1 EXCEPT !.m_vectorClustersSortedByName =
                                  [i \in 1..Len(map) |-> map[i][2]]]
              ELSE c1
    IN  [c |-> c2, ret |-> c2.m_vectorClustersSortedByName]

getClustersWithKey(c, key) ==
    LET c1 == createMultimapClustersSortedByKey(c)
    IN  [c |-> c1, ret |-> EqualRange(c1.m_mapWithClustersSortedByKey, key)]

getClustersWithName(c, name) ==
    LET c1 == createMultimapClustersSortedByName(c)
    IN  [c |-> c1, ret |-> EqualRange(c1.m_mapWithClustersSortedByName, name)]

\* The elements of a std::set<int32_t>, ascending.
RECURSIVE Ascending(_)
Ascending(keys) ==
    IF keys = {} THEN <<>>
    ELSE LET least == CHOOSE k \in keys : \A other \in keys : k <= other
         IN  <<least>> \o Ascending(keys \ {least})

getAllClusterKeys(c) ==
    LET c1 == IF c.m_keysSorted = <<>>
              THEN [c EXCEPT !.m_keysSorted =
                      Ascending({c.m_clusters[i].m_key : i \in 1..Len(c.m_clusters)})]
              ELSE c
    IN  [c |-> c1, ret |-> c1.m_keysSorted]

(***************************************************************************)
(* Specification of a ClusterContainer under its calls.                    *)
(***************************************************************************)
Container ==
    [m_clusters |-> m_clusters,
     m_mapWithClustersSortedByKey |-> m_mapWithClustersSortedByKey,
     m_mapWithClustersSortedByName |-> m_mapWithClustersSortedByName,
     m_vectorClustersSortedByKey |-> m_vectorClustersSortedByKey,
     m_vectorClustersSortedByName |-> m_vectorClustersSortedByName,
     m_keysSorted |-> m_keysSorted]

SetContainer(c) ==
    /\ m_clusters' = c.m_clusters
    /\ m_mapWithClustersSortedByKey' = c.m_mapWithClustersSortedByKey
    /\ m_mapWithClustersSortedByName' = c.m_mapWithClustersSortedByName
    /\ m_vectorClustersSortedByKey' = c.m_vectorClustersSortedByKey
    /\ m_vectorClustersSortedByName' = c.m_vectorClustersSortedByName
    /\ m_keysSorted' = c.m_keysSorted

HierarchyUnused ==
    /\ m_root = EmptyItem
    /\ m_usedNames = {""}
    /\ XmlIdle
    /\ jsonDoc = JUndefined

InitCluster ==
    /\ HierarchyUnused
    /\ NoLabelModel
    /\ NoClusters
    /\ last = NoCall

AddCluster ==
    /\ Len(m_clusters) < MaxClusters
    /\ \E key \in ClusterKeys, name \in ClusterNames :
          /\ SetContainer(addCluster(Container, NewCluster(key, name)))
          /\ last' = [op |-> "addCluster", key |-> key, name |-> name, ret |-> <<>>]
    /\ UNCHANGED <<hvars, xvars, jsonDoc, lvars>>

ClearClusters ==
    /\ SetContainer(clearClusters(Container))
    /\ last' = [op |-> "clear", key |-> 0, name |-> "", ret |-> <<>>]
    /\ UNCHANGED <<hvars, xvars, jsonDoc, lvars>>

GetClustersSortedByKey ==
    /\ LET r == getClustersSortedByKey(Container)
       IN  /\ SetContainer(r.c)
           /\ last' = [op |-> "getClustersSortedByKey", key |-> 0, name |-> "",
                       ret |-> r.ret]
    /\ UNCHANGED <<hvars, xvars, jsonDoc, lvars>>

GetClustersSortedByName ==
    /\ LET r == getClustersSortedByName(Container)
       IN  /\ SetContainer(r.c)
           /\ last' = [op |-> "getClustersSortedByName", key |-> 0, name |-> "",
                       ret |-> r.ret]
    /\ UNCHANGED <<hvars, xvars, jsonDoc, lvars>>

GetClustersWithKey ==
    /\ \E key \in ClusterKeys \cup {0} :    \* 0: the key of no cluster
          LET r == getClustersWithKey(Container, key)
          IN  /\ SetContainer(r.c)
              /\ last' = [op |-> "getClustersWithKey", key |-> key, name |-> "",
                          ret |-> r.ret]
    /\ UNCHANGED <<hvars, xvars, jsonDoc, lvars>>

GetClustersWithName ==
    /\ \E name \in ClusterNames \cup {"Unknown"} :
          LET r == getClustersWithName(Container, name)
          IN  /\ SetContainer(r.c)
              /\ last' = [op |-> "getClustersWithName", key |-> 0, name |-> name,
                          ret |-> r.ret]
    /\ UNCHANGED <<hvars, xvars, jsonDoc, lvars>>

GetAllClusterKeys ==
    /\ LET r == getAllClusterKeys(Container)
       IN  /\ SetContainer(r.c)
           /\ last' = [op |-> "getAllClusterKeys", key |-> 0, name |-> "",
                       ret |-> r.ret]
    /\ UNCHANGED <<hvars, xvars, jsonDoc, lvars>>

NextCluster ==
    \/ AddCluster
    \/ ClearClusters
    \/ GetClustersSortedByKey
    \/ GetClustersSortedByName
    \/ GetClustersWithKey
    \/ GetClustersWithName
    \/ GetAllClusterKeys

SpecCluster == InitCluster /\ [][NextCluster]_vars

(***************************************************************************)
(* mergeDisjointRightLeftClusters.  A Cluster has a key, a name, a         *)
(* location type and a set of coordinates <<x, y>>.                        *)
(* Cluster objects live in a heap: the object with pointer i is heap[i],   *)
(* the container's own clusters being the objects 1..Len(m_clusters).      *)
(***************************************************************************)
LocationTypes == {"UNKNOWN", "CENTRAL", "LEFT", "RIGHT"}

\* The X of the coordinates of the model: one left and one right of X = 0.
Sides == {-1, 1}

\* A cluster of a label: its name is the name of the label of its key.
LocatedCluster(key, location, coordinates) ==
    [m_key |-> key, m_name |-> ClusterNameOrder[key],
     m_location |-> location, m_coordinates |-> coordinates]

\* Cluster::splitClusterIntoRightAndLeft: two new clusters of the same key
\* and name, the coordinates divided by the sign of X.
splitClusterIntoRightAndLeft(cluster) ==
    <<[cluster EXCEPT !.m_location = "RIGHT",
                      !.m_coordinates = {xy \in @ : xy[1] > 0}],
      [cluster EXCEPT !.m_location = "LEFT",
                      !.m_coordinates = {xy \in @ : xy[1] < 0}]>>

\* Cluster::mergeCoordinates: the union of the coordinate sets.
mergeCoordinates(target, source) ==
    [target EXCEPT !.m_coordinates = @ \cup source.m_coordinates]

\* A variant that hands out the cluster itself instead of a copy.
copyClusterAlias(heap, ptr) == [heap |-> heap, ptr |-> ptr]

\* new Cluster(*cluster): a new object, equal to the one copied.
copyCluster(heap, ptr) == [heap |-> Append(heap, heap[ptr]), ptr |-> Len(heap) + 1]

\* The split phase for the clusters of one key: the clusters made by
\* splitting the CENTRAL ones, in order.
RECURSIVE splitCentralClusters(_, _, _)
splitCentralClusters(c, keyClusters, i) ==
    IF i > Len(keyClusters) THEN <<>>
    ELSE (IF c.m_clusters[keyClusters[i]].m_location = "CENTRAL"
          THEN splitClusterIntoRightAndLeft(c.m_clusters[keyClusters[i]])
          ELSE <<>>)
         \o splitCentralClusters(c, keyClusters, i + 1)

\* The split phase, from the i-th key on: the container (its caches filled by
\* the lookups) and newClustersFromSplitting.
RECURSIVE splitPhase(_, _, _, _)
splitPhase(c, allKeys, i, newClustersFromSplitting) ==
    IF i > Len(allKeys) THEN [c |-> c, news |-> newClustersFromSplitting]
    ELSE LET r == getClustersWithKey(c, allKeys[i])
         IN  splitPhase(r.c, allKeys, i + 1,
                        newClustersFromSplitting
                            \o splitCentralClusters(r.c, r.ret, 1))

\* A variant that adds none of the split clusters.
RECURSIVE addSplitClustersNone(_, _, _)
addSplitClustersNone(c, news, i) == c

\* for (Cluster* c : newClustersFromSplitting) addCluster(c)
RECURSIVE addSplitClusters(_, _, _), addSplitClustersRekeyed(_, _, _)
\* A variant that adds every split cluster under the key 2.
addSplitClustersRekeyed(c, news, i) ==
    IF i > Len(news) THEN c
    ELSE addSplitClustersRekeyed(addCluster(c, [news[i] EXCEPT !.m_key = 2]),
                                 news, i + 1)

addSplitClusters(c, news, i) ==
    IF i > Len(news) THEN c
    ELSE addSplitClusters(addCluster(c, news[i]), news, i + 1)

NullClusters == [t \in LocationTypes |-> 0]

\* The switch of the merge phase over the clusters of one key, from the
\* i-th on: b holds unknownCluster, centralCluster, leftCluster and
\* rightCluster, 0 for NULL.
RECURSIVE mergeKeyClusters(_, _, _, _)
mergeKeyClusters(heap, keyClusters, i, b) ==
    IF i > Len(keyClusters) THEN [heap |-> heap, b |-> b]
    ELSE LET cluster == keyClusters[i]
             t == heap[cluster].m_location
         IN  IF b[t] # 0
             THEN mergeKeyClusters(
                      [heap EXCEPT ![b[t]] = mergeCoordinates(@, heap[cluster])],
                      keyClusters, i + 1, b)
             ELSE LET n == copyCluster(heap, cluster)
                  IN  mergeKeyClusters(n.heap, keyClusters, i + 1,
                                       [b EXCEPT ![t] = n.ptr])

\* clustersOut->addCluster for the clusters that are not NULL.
addMerged(heap, out, b) ==
    LET Add(o, t) ==
            IF b[t] = 0 THEN o
            ELSE [c |-> addCluster(o.c, heap[b[t]]), objs |-> Append(o.objs, b[t])]
    IN  Add(Add(Add(Add(out, "UNKNOWN"), "CENTRAL"), "LEFT"), "RIGHT")

\* The merge phase, from the i-th key on.  The container's own clusters are
\* the first Len(c.m_clusters) objects of the heap.
RECURSIVE mergePhase(_, _, _, _, _)
mergePhase(c, heap, allKeys, i, out) ==
    IF i > Len(allKeys)
    THEN [c |-> [c EXCEPT !.m_clusters = SubSeq(heap, 1, Len(c.m_clusters))],
          ret |-> out]
    ELSE LET r == getClustersWithKey(c, allKeys[i])
             m == mergeKeyClusters(heap, r.ret, 1, NullClusters)
         IN  mergePhase(r.c, m.heap, allKeys, i + 1, addMerged(m.heap, out, m.b))

\* mergeDisjointRightLeftClusters(): the container after the call, and the
\* container returned with the pointers of its clusters.
mergeDisjointRightLeftClusters(c) ==
    LET k == getAllClusterKeys(c)
        s == splitPhase(k.c, k.ret, 1, <<>>)
        c1 == addSplitClusters(s.c, s.news, 1)
    IN  mergePhase(c1, c1.m_clusters, k.ret, 1,
                   [c |-> EmptyContainer, objs |-> <<>>])

(***************************************************************************)
(* Specification of mergeDisjointRightLeftClusters on a container that     *)
(* holds any list of clusters.                                             *)
(***************************************************************************)
\* What a cluster of a container can be, its coordinates at y = 0.  The
\* container reads no coordinates and the split is of CENTRAL clusters
\* only, so it is those that come with coordinates on one side or on both.
LocatedClusters ==
    {LocatedCluster(key, t, {<<x, 0>> : x \in Sides}) :
        key \in ClusterKeys, t \in LocationTypes}
    \cup {LocatedCluster(key, "CENTRAL", {<<x, 0>>}) :
             key \in ClusterKeys, x \in Sides}

\* The clusters of a container are disjoint: the i-th has its coordinates
\* at y = i.
DisjointClusters(picks) ==
    [i \in 1..Len(picks) |->
        [picks[i] EXCEPT !.m_coordinates = {<<xy[1], i>> : xy \in @}]]

InitMerge ==
    /\ HierarchyUnused
    /\ NoLabelModel
    /\ \E n \in 0..MaxClusters :
          \E picks \in [1..n -> LocatedClusters] :
             m_clusters = DisjointClusters(picks)
    /\ m_mapWithClustersSortedByKey = <<>>
    /\ m_mapWithClustersSortedByName = <<>>
    /\ m_vectorClustersSortedByKey = <<>>
    /\ m_vectorClustersSortedByName = <<>>
    /\ m_keysSorted = <<>>
    /\ last = NoCall

MergeDisjointRightLeftClusters ==
    /\ last = NoCall
    /\ Len(m_clusters) <= MaxClusters
    /\ LET r == mergeDisjointRightLeftClusters(Container)
       IN  /\ SetContainer(r.c)
           /\ last' = [op |-> "mergeDisjointRightLeftClusters",
                       clusters |-> m_clusters,
                       ret |-> r.ret.c.m_clusters, objs |-> r.ret.objs,
                       again |-> FALSE, before |-> <<>>]
    /\ UNCHANGED <<hvars, xvars, jsonDoc, lvars>>

\* A call that directly follows the first call, on the container the first
\* call left; last.before is what the first call returned.
MergeDisjointRightLeftClustersAgain ==
    /\ last.op = "mergeDisjointRightLeftClusters"
    /\ ~last.again
    /\ LET r == mergeDisjointRightLeftClusters(Container)
       IN  /\ SetContainer(r.c)
           /\ last' = [op |-> "mergeDisjointRightLeftClusters",
                       clusters |-> m_clusters,
                       ret |-> r.ret.c.m_clusters, objs |-> r.ret.objs,
                       again |-> TRUE, before |-> last.ret]
    /\ UNCHANGED <<hvars, xvars, jsonDoc, lvars>>

NextMerge ==
    \/ MergeDisjointRightLeftClusters
    \/ MergeDisjointRightLeftClustersAgain

SpecMerge == InitMerge /\ [][NextMerge]_vars

(***************************************************************************)
(* GiftiLabelTable, as the function from the keys of its labels to their   *)
(* names: the label of key k is named table[k]; the unassigned label "???" *)
(* has key 0.  A key is an int32_t and may be negative; two labels may     *)
(* have the same name.  The hierarchy of the table is the CaretHierarchy   *)
(* of m_root.                                                              *)
(***************************************************************************)
\* Labels of a label table, the unassigned label not counted.
MaxLabels == 2

UnassignedName == "???"

\* The names of labels, in the order AString compares them.
LabelNameOrder == <<UnassignedName, "a", "b", "t", "u">>

LabelNames == Names \cup {"t"}

LabelNameRank(name) ==
    CHOOSE i \in 1..Len(LabelNameOrder) : LabelNameOrder[i] = name

NullLabel == [null |-> TRUE, key |-> -1, name |-> ""]

getUnassignedLabelKey(table) == 0

LabelKeys(table) == {0} \cup DOMAIN table

getLabelName(table, key) ==
    IF key = 0 THEN UnassignedName ELSE table[key]

\* getLabel(name): the first label of that name in the order of the keys.
getLabel(table, name) ==
    LET keys == {k \in LabelKeys(table) : getLabelName(table, k) = name}
    IN  IF keys = {} THEN NullLabel
        ELSE [null |-> FALSE,
              key |-> CHOOSE k \in keys : \A other \in keys : k <= other,
              name |-> name]

\* getLabelKeysSortedByName: by name, labels of one name by key.
getLabelKeysSortedByName(table) ==
    LET keys == Ascending(LabelKeys(table))
        low == keys[1]
        width == keys[Len(keys)] - low + 1
        ranked == Ascending({LabelNameRank(getLabelName(table, k)) * width
                                + (k - low) : k \in LabelKeys(table)})
    IN  [i \in 1..Len(ranked) |-> (ranked[i] % width) + low]

\* The elements of a std::set<AString>, in its order.
NamesInOrder(names) ==
    LET ranked == Ascending({LabelNameRank(n) : n \in names})
    IN  [i \in 1..Len(ranked) |-> LabelNameOrder[ranked[i]]]

\* getHierarchy().isEmpty(): the invisible root has no children.
isEmpty(root) == root.children = <<>>

(***************************************************************************)
(* The const ClusterContainer* given to the model: NULL, or a container    *)
(* with its m_keysThatAreNotInAnyClusters.                                 *)
(***************************************************************************)
NullContainer ==
    [null |-> TRUE, c |-> EmptyContainer, m_keysThatAreNotInAnyClusters |-> {}]

addKeyThatIsNotInAnyCluster(cc, key) ==
    [cc EXCEPT !.m_keysThatAreNotInAnyClusters = @ \cup {key}]

getKeysThatAreNotInAnyClusters(cc) == cc.m_keysThatAreNotInAnyClusters

(***************************************************************************)
(* LabelSelectionItem, a QStandardItem.                                    *)
(***************************************************************************)
CheckStates == {"Unchecked", "PartiallyChecked", "Checked"}

\* LabelSelectionItem(text, ontologyID, labelIndex, labelRGBA)
LabelSelectionItem(text, labelIndex) ==
    [text |-> text, labelIndex |-> labelIndex, itemType |-> "ITEM_LABEL",
     enabled |-> TRUE, toolTip |-> <<>>, checkState |-> "Unchecked",
     clusters |-> <<>>, children |-> <<>>]

\* LabelSelectionItem(text, ontologyID)
LabelSelectionItemHierarchy(text) ==
    [text |-> text, labelIndex |-> -1, itemType |-> "ITEM_HIERARCHY",
     enabled |-> TRUE, toolTip |-> <<>>, checkState |-> "Unchecked",
     clusters |-> <<>>, children |-> <<>>]

setClusters(item, clusters) == [item EXCEPT !.clusters = clusters]

appendToToolTip(item, text) == [item EXCEPT !.toolTip = Append(@, text)]

setEnabled(item, enabled) == [item EXCEPT !.enabled = enabled]

setCheckState(item, checkState) == [item EXCEPT !.checkState = checkState]

appendRow(item, row) == [item EXCEPT !.children = Append(@, row)]

hasChildren(item) == item.children # <<>>

\* setAllChildrenChecked: every descendant gets the state, the item itself
\* keeps its own.
RECURSIVE setAllChildrenChecked(_, _)
setAllChildrenChecked(item, checked) ==
    [item EXCEPT !.children =
        [i \in 1..Len(item.children) |->
            setAllChildrenChecked(
                setCheckState(item.children[i],
                              IF checked THEN "Checked" ELSE "Unchecked"),
                checked)]]

\* setCheckStateFromChildren: bottom-up, an item with rows is checked if all
\* its rows are, unchecked if none is checked or partially checked, else
\* partially checked; an item without rows keeps its state.
RECURSIVE setCheckStateFromChildren(_)
setCheckStateFromChildren(item) ==
    IF ~ hasChildren(item) THEN item
    ELSE LET rows == [i \in 1..Len(item.children) |->
                         setCheckStateFromChildren(item.children[i])]
             states == {rows[i].checkState : i \in 1..Len(rows)}
         IN  [item EXCEPT !.children = rows,
                          !.checkState =
                 IF states = {"Checked"} THEN "Checked"
                 ELSE IF states = {"Unchecked"} THEN "Unchecked"
                 ELSE "PartiallyChecked"]

\* The item a LabelSelectionItem* addresses: rows is the list of the rows
\* of invisibleRootItem(), ptr the path of row indices.
RECURSIVE ItemAt(_, _)
ItemAt(rows, ptr) ==
    IF Len(ptr) = 1 THEN rows[ptr[1]]
    ELSE ItemAt(rows[ptr[1]].children, Tail(ptr))

\* The rows after the item ptr addresses was replaced.
RECURSIVE SetItemAt(_, _, _)
SetItemAt(rows, ptr, item) ==
    [rows EXCEPT ![ptr[1]] =
        IF Len(ptr) = 1 THEN item
        ELSE [@ EXCEPT !.children = SetItemAt(@, Tail(ptr), item)]]

\* The pointers to every item below the rows, each with the path prefix.
RECURSIVE ItemPtrs(_, _)
ItemPtrs(rows, prefix) ==
    UNION {{Append(prefix, i)} \cup ItemPtrs(rows[i].children, Append(prefix, i)) :
              i \in 1..Len(rows)}

(***************************************************************************)
(* LabelSelectionItemModel.  A build works on the record                   *)
(*   [rows, map, missing, parents, valid, ...]                             *)
(* of topLevelItems / the rows of invisibleRootItem(),                     *)
(* m_labelKeyToLabelSelectionItem (its <<key, LabelSelectionItem*>>        *)
(* entries), m_buildTreeMissingLabelNames, m_hierarchyParentNames and      *)
(* m_validFlag, and keeps a record of what it did: the steps it completed, *)
(* the two sets of names of the reconciliation, the number of top-level    *)
(* items the walk made and the map as the walk left it, whether a null     *)
(* ClusterContainer* was dereferenced and whether the build ended in a     *)
(* crash.                                                                  *)
(***************************************************************************)
MapHas(map, key) == \E e \in map : e[1] = key

MapAt(map, key) == (CHOOSE e \in map : e[1] = key)[2]

\* m_labelKeyToLabelSelectionItem[key] = item
MapSet(map, key, ptr) == {e \in map : e[1] # key} \cup {<<key, ptr>>}

NoLabelToolTip == "There is no label in the label table for this name"

NotUsedToolTip == "This label is not used by any brainordinates"

LabelTableOnly == "Label Table Only"

RECURSIVE buildTree(_, _, _, _, _)
RECURSIVE buildTreeRows(_, _, _, _, _, _, _)

\* The loop of buildTree over hierarchyItem->children, from child i on.
buildTreeRows(b, itemOut, hierarchyItem, table, cc, ptr, i) ==
    IF i > Len(hierarchyItem.children)
    THEN [b |-> b, item |-> itemOut]
    ELSE LET r == buildTree(b, hierarchyItem.children[i], table, cc,
                            Append(ptr, i))
         IN  buildTreeRows(r.b, appendRow(itemOut, r.item), hierarchyItem,
                           table, cc, ptr, i + 1)

\* buildTree: the item made for hierarchyItem and its children; ptr is the
\* place of the item in the display tree.
buildTree(b, hierarchyItem, table, cc, ptr) ==
    LET name == hierarchyItem.name
        label == getLabel(table, name)
        labelKey == IF ~ label.null THEN label.key ELSE -1
        WithClusters(item) ==
            IF ~ cc.null
            THEN setClusters(item, getClustersWithKey(cc.c, labelKey).ret)
            ELSE item
    IN  IF Len(hierarchyItem.children) > 0
        THEN LET itemOut == IF ~ label.null
                            THEN WithClusters(LabelSelectionItem(name, labelKey))
                            ELSE LabelSelectionItemHierarchy(name)
                 r == buildTreeRows(b, itemOut, hierarchyItem, table, cc, ptr, 1)
             IN  [b |-> [r.b EXCEPT
                            !.map = IF labelKey >= 0
                                    THEN MapSet(@, labelKey, ptr) ELSE @,
                            !.parents = @ \cup {name}],
                  item |-> r.item]
        ELSE LET itemOut == WithClusters(LabelSelectionItem(name, labelKey))
                 b1 == IF labelKey >= 0
                       THEN [b EXCEPT !.map = MapSet(@, labelKey, ptr)]
                       ELSE b
             IN  IF label.null
                 THEN LET tipped == appendToToolTip(itemOut, NoLabelToolTip)
                      IN  [b |-> [b1 EXCEPT !.missing = @ \cup {name}],
                           item |-> IF ~ hasChildren(tipped)
                                    THEN setEnabled(tipped, FALSE)
                                    ELSE tipped]
                 ELSE [b |-> b1, item |-> itemOut]

\* The walk of buildModel over the children of the invisible root, from
\* child i on: topLevelItems.push_back(buildTree(...)).
RECURSIVE walkHierarchy(_, _, _, _, _)
walkHierarchy(b, caretRootItem, table, cc, i) ==
    IF i > Len(caretRootItem.children)
    THEN [b EXCEPT !.steps = @ \cup {"walk"}, !.walked = Len(b.rows),
                   !.walkedMap = b.map]
    ELSE LET r == buildTree(b, caretRootItem.children[i], table, cc, <<i>>)
         IN  walkHierarchy([r.b EXCEPT !.rows = Append(@, r.item)],
                           caretRootItem, table, cc, i + 1)

\* The loop of buildModel over the label keys: the names of the labels that
\* have no item, in labelIsParentInHierarchyNames or in
\* buildTreeMissingHierarchyNames.
reconcileLabels(b, table) ==
    LET labelKeys == getLabelKeysSortedByName(table)
        unbound == {labelKeys[i] : i \in
                       {j \in 1..Len(labelKeys) :
                           /\ labelKeys[j] # getUnassignedLabelKey(table)
                           /\ ~ MapHas(b.map, labelKeys[j])}}
    IN  [b EXCEPT
            !.labelIsParentInHierarchyNames =
                {getLabelName(table, k) : k \in
                    {u \in unbound : getLabelName(table, u) \in b.parents}},
            !.buildTreeMissingHierarchyNames =
                {getLabelName(table, k) : k \in
                    {u \in unbound : getLabelName(table, u) \notin b.parents}}]

\* The loop over buildTreeMissingHierarchyNames, from name i on: an item
\* for the label getLabel(name) finds, appended to parentItem.
RECURSIVE addLabelTableOnlyItems(_, _, _, _, _, _, _)
addLabelTableOnlyItems(b, parentItem, names, table, cc, ptr, i) ==
    IF i > Len(names)
    THEN [b |-> b, item |-> parentItem]
    ELSE LET giftiLabel == getLabel(table, names[i])
         IN  IF ~ giftiLabel.null
             THEN LET labelKey == giftiLabel.key
                      made == LabelSelectionItem(names[i], labelKey)
                      item == IF ~ cc.null
                              THEN setClusters(made,
                                       getClustersWithKey(cc.c, labelKey).ret)
                              ELSE made
                      row == Len(parentItem.children) + 1
                  IN  addLabelTableOnlyItems(
                          [b EXCEPT !.map = MapSet(@, labelKey, Append(ptr, row))],
                          appendRow(parentItem, item), names, table, cc, ptr,
                          i + 1)
             ELSE addLabelTableOnlyItems(b, parentItem, names, table, cc, ptr,
                                         i + 1)

\* The "Label Table Only" group of buildModel, pushed to topLevelItems.
addLabelTableOnly(b, table, cc) ==
    IF b.buildTreeMissingHierarchyNames # {}
    THEN LET r == addLabelTableOnlyItems(
                      b, LabelSelectionItemHierarchy(LabelTableOnly),
                      NamesInOrder(b.buildTreeMissingHierarchyNames), table, cc,
                      <<Len(b.rows) + 1>>, 1)
         IN  [r.b EXCEPT !.rows = Append(@, r.item),
                         !.steps = @ \cup {"reconcile"}]
    ELSE [b EXCEPT !.steps = @ \cup {"reconcile"}]

\* The loop of buildModel over m_labelKeyToLabelSelectionItem: the items of
\* the keys in keysNotInClusters get a tooltip and, without rows, are
\* disabled.
markKeysNotInClusters(b, keysNotInClusters) ==
    LET RECURSIVE Mark(_, _)
        Mark(rows, entries) ==
            IF entries = {} THEN rows
            ELSE LET e == CHOOSE x \in entries : TRUE
                     labelItem == ItemAt(rows, e[2])
                     tipped == appendToToolTip(labelItem, NotUsedToolTip)
                 IN  Mark(SetItemAt(rows, e[2],
                                    IF ~ hasChildren(tipped)
                                    THEN setEnabled(tipped, FALSE)
                                    ELSE tipped),
                          entries \ {e})
    IN  [b EXCEPT !.rows = Mark(@, {e \in b.map : e[1] \in keysNotInClusters}),
                  !.steps = @ \cup {"markUnused"}]

\* A variant of setCheckedStatusOfAllItems that leaves the rows below the
\* top-level items as they are.
setCheckedStatusOfAllItemsTop(rows, checked) ==
    [iRow \in 1..Len(rows) |->
        setCheckState(rows[iRow], IF checked THEN "Checked" ELSE "Unchecked")]

setCheckedStatusOfAllItems(rows, checked) ==
    [iRow \in 1..Len(rows) |->
        setAllChildrenChecked(
            setCheckState(rows[iRow], IF checked THEN "Checked" ELSE "Unchecked"),
            checked)]

\* A variant of updateCheckedStateOfAllItems that updates the first
\* top-level item only.
updateCheckedStateOfAllItemsFirst(rows) ==
    [iRow \in 1..Len(rows) |->
        IF iRow = 1 THEN setCheckStateFromChildren(rows[iRow]) ELSE rows[iRow]]

updateCheckedStateOfAllItems(rows) ==
    [iRow \in 1..Len(rows) |-> setCheckStateFromChildren(rows[iRow])]

isValid == m_validFlag

isLabelChecked(rows, map, labelKey) ==
    IF MapHas(map, labelKey)
    THEN ItemAt(rows, MapAt(map, labelKey)).checkState = "Checked"
    ELSE FALSE

\* The entry of buildModel: the map and the missing names are cleared.
NewBuild(parentNames) ==
    [rows |-> <<>>, map |-> {}, missing |-> {}, parents |-> parentNames,
     valid |-> FALSE, steps |-> {}, walked |-> 0, walkedMap |-> {},
     labelIsParentInHierarchyNames |-> {},
     buildTreeMissingHierarchyNames |-> {},
     nullDereferenced |-> FALSE, crashed |-> FALSE]

\* A variant of the early return of buildModel that marks the model valid.
emptyHierarchyValid(b) == [b EXCEPT !.valid = TRUE]

\* buildModel on an empty hierarchy: it returns at once.
emptyHierarchy(b) == b

\* buildModel from the unused keys on: the items of unused keys are marked,
\* every item is checked, the states of the items with rows are set from
\* their rows, and the model is valid.
finishBuild(b, keysNotInClusters) ==
    LET marked == markKeysNotInClusters(b, keysNotInClusters)
        checked == setCheckedStatusOfAllItems(marked.rows, TRUE)
    IN  [marked EXCEPT !.rows = updateCheckedStateOfAllItems(checked),
                       !.steps = @ \cup {"checkInit"},
                       !.valid = TRUE]

\* buildModel: the builds it can end in.  clusterContainer is dereferenced
\* for the unused keys whether it is NULL or not; with NULL the behaviour is
\* undefined: the build crashes there, or it goes on with whatever set of
\* keys the read gives.
buildModel(parentNames, caretHierarchyRoot, table, cc) ==
    IF isEmpty(caretHierarchyRoot)
    THEN {emptyHierarchy(NewBuild(parentNames))}
    ELSE LET walked == walkHierarchy(NewBuild(parentNames), caretHierarchyRoot,
                                     table, cc, 1)
             b == addLabelTableOnly(reconcileLabels(walked, table), table, cc)
         IN  IF cc.null
             THEN {[b EXCEPT !.nullDereferenced = TRUE, !.crashed = TRUE]}
                  \cup {finishBuild([b EXCEPT !.nullDereferenced = TRUE], keys) :
                           keys \in SUBSET LabelKeys(table)}
             ELSE {finishBuild(b, getKeysThatAreNotInAnyClusters(cc))}

(***************************************************************************)
(* Specification of a LabelSelectionItemModel: the hierarchy of the label  *)
(* table is filled, then the model is constructed from a label table and   *)
(* a cluster container.                                                    *)
(***************************************************************************)
\* The Items added to the hierarchy of a label table: no extraInfo.
LabelHierarchyItems ==
    {[name |-> n, extraInfo |-> KVEmpty, children |-> c] :
        n \in Names,
        c \in {x \in ChildLists(MaxCarried) :
                  \A i \in 1..Len(x) : x[i].name \in Names}}

\* The container of a label file: a cluster for each of the keys in used,
\* the other keys of the table noted as not in any cluster.
RECURSIVE ContainerOf(_, _, _)
ContainerOf(cc, used, keys) ==
    IF keys = <<>> THEN cc
    ELSE ContainerOf(
             IF Head(keys) \in used
             THEN [cc EXCEPT !.c = addCluster(@, NewCluster(Head(keys),
                                                  ClusterNameOrder[1]))]
             ELSE addKeyThatIsNotInAnyCluster(cc, Head(keys)),
             used, Tail(keys))

NewContainer ==
    [null |-> FALSE, c |-> EmptyContainer, m_keysThatAreNotInAnyClusters |-> {}]

ClusterContainersOf(table) ==
    LET keys == Ascending({k \in DOMAIN table : k > 0})
    IN  {NullContainer} \cup
        {ContainerOf(NewContainer, used, keys) :
            used \in SUBSET {keys[i] : i \in 1..Len(keys)}}

\* The key sets of the label tables with at most n labels: the keys from 1
\* on, and possibly a label with a negative key.
LabelKeySets(n) ==
    {keys \in {(1..p) \cup negative : p \in 0..n, negative \in {{}, {-2}}} :
        Cardinality(keys) <= n}

InitLabel ==
    /\ HierarchyUnused
    /\ NoClusters
    /\ NoLabelModel
    /\ last = NoCall

\* m_giftiLabelTable->getHierarchy() gets an item, before the model is made.
AddLabelHierarchyItem ==
    \E toAdd \in LabelHierarchyItems, parent \in NameInputs :
        /\ last = NoCall
        /\ ItemCount(m_root) - 1 + ItemCount(toAdd) <= MaxItems
        /\ LET r == addItem([root |-> m_root, used |-> m_usedNames], toAdd, parent)
           IN  /\ r.ok
               /\ m_root' = r.h.root
               /\ m_usedNames' = r.h.used
        /\ UNCHANGED <<last, xvars, jsonDoc, cvars, lvars>>

\* The state after the constructor ran buildModel to the build b.
SetLabelModel(table, cc, b) ==
    /\ m_giftiLabelTable' = table
    /\ rootItem' = b.rows
    /\ m_labelKeyToLabelSelectionItem' = b.map
    /\ m_buildTreeMissingLabelNames' = b.missing
    /\ m_hierarchyParentNames' = b.parents
    /\ m_validFlag' = b.valid
    /\ isSelected' = [k \in LabelKeys(table) |-> TRUE]
    /\ UNCHANGED <<sceneClass, savedRows>>
    /\ last' = [op |-> "LabelSelectionItemModel", clusterContainer |-> cc,
                build |-> b]

\* LabelSelectionItemModel(fileAndMapName, giftiLabelTable, clusterContainer,
\* displayGroup, tabIndex, logMismatchedLabelsFlag)
ConstructLabelModel ==
    /\ last = NoCall
    /\ \E keys \in LabelKeySets(MaxLabels) :
          \E table \in [keys -> LabelNames] :
             \E cc \in ClusterContainersOf(table) :
                \E b \in buildModel(m_hierarchyParentNames, m_root, table, cc) :
                   SetLabelModel(table, cc, b)
    /\ UNCHANGED <<hvars, xvars, jsonDoc, cvars>>

NextLabel == AddLabelHierarchyItem \/ ConstructLabelModel

SpecLabel == InitLabel /\ [][NextLabel]_vars

(***************************************************************************)
(* Specification of the check states of a LabelSelectionItemModel: the     *)
(* model is constructed, then items are checked and unchecked one by one   *)
(* or all at once, and the states of the items with rows are recomputed.   *)
(***************************************************************************)
\* A label table with the labels "a", "t" and "u".
PlainTable == <<"a", "t", "u">>

ConstructPlainLabelModel ==
    /\ last = NoCall
    /\ \E b \in buildModel(m_hierarchyParentNames, m_root, PlainTable,
                           NewContainer) :
          SetLabelModel(PlainTable, NewContainer, b)
    /\ UNCHANGED <<hvars, xvars, jsonDoc, cvars>>

\* QStandardItem::setCheckState on one item: a click on its check box.
SetCheckState ==
    /\ m_validFlag
    /\ \E ptr \in ItemPtrs(rootItem, <<>>), checkState \in {"Checked", "Unchecked"} :
          /\ rootItem' = SetItemAt(rootItem, ptr,
                                   setCheckState(ItemAt(rootItem, ptr), checkState))
          /\ last' = [op |-> "setCheckState"]
    /\ UNCHANGED <<hvars, xvars, jsonDoc, cvars, m_giftiLabelTable,
                   m_labelKeyToLabelSelectionItem, m_buildTreeMissingLabelNames,
                   m_hierarchyParentNames, m_validFlag, isSelected, sceneClass,
                   savedRows>>

SetCheckedStatusOfAllItems ==
    /\ m_validFlag
    /\ \E checked \in BOOLEAN :
          /\ rootItem' = setCheckedStatusOfAllItems(rootItem, checked)
          /\ last' = [op |-> "setCheckedStatusOfAllItems", checked |-> checked]
    /\ UNCHANGED <<hvars, xvars, jsonDoc, cvars, m_giftiLabelTable,
                   m_labelKeyToLabelSelectionItem, m_buildTreeMissingLabelNames,
                   m_hierarchyParentNames, m_validFlag, isSelected, sceneClass,
                   savedRows>>

UpdateCheckedStateOfAllItems ==
    /\ m_validFlag
    /\ rootItem' = updateCheckedStateOfAllItems(rootItem)
    /\ last' = [op |-> "updateCheckedStateOfAllItems", rows |-> rootItem]
    /\ UNCHANGED <<hvars, xvars, jsonDoc, cvars, m_giftiLabelTable,
                   m_labelKeyToLabelSelectionItem, m_buildTreeMissingLabelNames,
                   m_hierarchyParentNames, m_validFlag, isSelected, sceneClass,
                   savedRows>>

NextChecked ==
    \/ AddLabelHierarchyItem
    \/ ConstructPlainLabelModel
    \/ SetCheckState
    \/ SetCheckedStatusOfAllItems
    \/ UpdateCheckedStateOfAllItems

SpecChecked == InitLabel /\ [][NextChecked]_vars

(***************************************************************************)
(* Specification of a LabelSelectionItemModel and the selections kept in   *)
(* its label table: items are checked and unchecked, the selected flag of  *)
(* a label is set from outside, a label is deleted from the table, and     *)
(* synchronizeSelectionsWithLabelTable copies one way or the other.        *)
(***************************************************************************)
\* GiftiLabelTable::getLabel(key): NULL when the table has no such label.
getLabelOfKey(table, key) ==
    IF key \in LabelKeys(table)
    THEN [null |-> FALSE, key |-> key, name |-> getLabelName(table, key)]
    ELSE NullLabel

\* The loop of synchronizeSelectionsWithLabelTable over the entries of
\* m_labelKeyToLabelSelectionItem, in the order of the keys.
RECURSIVE synchronizeEntries(_, _, _, _, _, _)
synchronizeEntries(rows, selected, map, table, keys, copyToLabelTableFlag) ==
    IF keys = <<>> THEN [rows |-> rows, selected |-> selected]
    ELSE LET key == Head(keys)
             labelSelectionItem == MapAt(map, key)
             label == getLabelOfKey(table, key)
         IN  IF label.null
             THEN synchronizeEntries(rows, selected, map, table, Tail(keys),
                                     copyToLabelTableFlag)
             ELSE IF copyToLabelTableFlag
             THEN LET selectedFlag ==
                          ItemAt(rows, labelSelectionItem).checkState # "Unchecked"
                  IN  synchronizeEntries(rows,
                          [selected EXCEPT ![key] = selectedFlag],
                          map, table, Tail(keys), copyToLabelTableFlag)
             ELSE LET checkState == IF selected[key] THEN "Checked"
                                    ELSE "Unchecked"
                  IN  synchronizeEntries(
                          SetItemAt(rows, labelSelectionItem,
                              setCheckState(ItemAt(rows, labelSelectionItem),
                                            checkState)),
                          selected, map, table, Tail(keys), copyToLabelTableFlag)

\* A variant that does not run updateCheckedStateOfAllItems at the end.
synchronizeSelectionsNoUpdate(rows, selected, map, table, copyToLabelTableFlag) ==
    synchronizeEntries(rows, selected, map, table,
                       Ascending({e[1] : e \in map}), copyToLabelTableFlag)

\* A variant that copies a partially checked item as not selected.
synchronizeSelectionsCheckedOnly(rows, selected, map, table, copyToLabelTableFlag) ==
    LET r == synchronizeEntries(rows, selected, map, table,
                                Ascending({e[1] : e \in map}),
                                copyToLabelTableFlag)
    IN  IF copyToLabelTableFlag
        THEN [rows |-> r.rows,
              selected |-> [k \in DOMAIN selected |->
                              IF MapHas(map, k) /\ k \in LabelKeys(table)
                              THEN isLabelChecked(rows, map, k)
                              ELSE selected[k]]]
        ELSE [rows |-> updateCheckedStateOfAllItems(r.rows),
              selected |-> r.selected]

synchronizeSelectionsWithLabelTable(rows, selected, map, table, copyToLabelTableFlag) ==
    LET r == synchronizeEntries(rows, selected, map, table,
                                Ascending({e[1] : e \in map}),
                                copyToLabelTableFlag)
    IN  IF ~ copyToLabelTableFlag
        THEN [rows |-> updateCheckedStateOfAllItems(r.rows),
              selected |-> r.selected]
        ELSE r

\* The names the hierarchy of the label table is filled with, in this order.
HierarchyNameOrder == <<"a", "b", "t">>

\* m_giftiLabelTable->getHierarchy() gets its next item, without children
\* of its own, before the model is made.
AddPlainLabelHierarchyItem ==
    \E parent \in {""} \cup {HierarchyNameOrder[i] : i \in 1..Len(HierarchyNameOrder)} :
        /\ last = NoCall
        /\ ItemCount(m_root) <= MaxItems
        /\ ItemCount(m_root) <= Len(HierarchyNameOrder)
        /\ LET r == addItem([root |-> m_root, used |-> m_usedNames],
                            NewItem(HierarchyNameOrder[ItemCount(m_root)]),
                            parent)
           IN  /\ r.ok
               /\ m_root' = r.h.root
               /\ m_usedNames' = r.h.used
        /\ UNCHANGED <<last, xvars, jsonDoc, cvars, lvars>>

\* gnhn->setSelected(displayGroup, tabIndex, status) on the label of a key,
\* by another user of the label table.
SetSelected ==
    /\ m_validFlag
    /\ \E key \in DOMAIN m_giftiLabelTable, status \in BOOLEAN :
          isSelected' = [isSelected EXCEPT ![key] = status]
    /\ last' = [op |-> "setSelected"]
    /\ UNCHANGED <<hvars, xvars, jsonDoc, cvars, m_giftiLabelTable, rootItem,
                   m_labelKeyToLabelSelectionItem, m_buildTreeMissingLabelNames,
                   m_hierarchyParentNames, m_validFlag, sceneClass, savedRows>>

\* A label is deleted from the label table after the model was built.
DeleteLabel ==
    /\ m_validFlag
    /\ \E key \in DOMAIN m_giftiLabelTable :
          /\ m_giftiLabelTable' =
                [k \in DOMAIN m_giftiLabelTable \ {key} |-> m_giftiLabelTable[k]]
          /\ isSelected' = [k \in DOMAIN isSelected \ {key} |-> isSelected[k]]
    /\ last' = [op |-> "deleteLabel"]
    /\ UNCHANGED <<hvars, xvars, jsonDoc, cvars, rootItem,
                   m_labelKeyToLabelSelectionItem, m_buildTreeMissingLabelNames,
                   m_hierarchyParentNames, m_validFlag, sceneClass, savedRows>>

\* last.afterCopy tells that the call before this one was
\* synchronizeSelectionsWithLabelTable(true); last.prior holds the rows
\* that call found.
SynchronizeSelectionsWithLabelTable ==
    /\ m_validFlag
    /\ \E copyToLabelTableFlag \in BOOLEAN :
          LET r == synchronizeSelectionsWithLabelTable(
                       rootItem, isSelected, m_labelKeyToLabelSelectionItem,
                       m_giftiLabelTable, copyToLabelTableFlag)
              afterCopy == /\ last.op = "synchronizeSelectionsWithLabelTable"
                           /\ last.copyToLabelTableFlag
          IN  /\ rootItem' = r.rows
              /\ isSelected' = r.selected
              /\ last' = [op |-> "synchronizeSelectionsWithLabelTable",
                          copyToLabelTableFlag |-> copyToLabelTableFlag,
                          rows |-> rootItem, selected |-> isSelected,
                          afterCopy |-> afterCopy,
                          prior |-> IF afterCopy THEN last.rows ELSE <<>>]
    /\ UNCHANGED <<hvars, xvars, jsonDoc, cvars, m_giftiLabelTable,
                   m_labelKeyToLabelSelectionItem, m_buildTreeMissingLabelNames,
                   m_hierarchyParentNames, m_validFlag, sceneClass, savedRows>>

NextSync ==
    \/ AddPlainLabelHierarchyItem
    \/ ConstructPlainLabelModel
    \/ SetCheckState
    \/ UpdateCheckedStateOfAllItems
    \/ SetSelected
    \/ DeleteLabel
    \/ SynchronizeSelectionsWithLabelTable

SpecSync == InitLabel /\ [][NextSync]_vars

(***************************************************************************)
(* Specification of a LabelSelectionItemModel saved to a scene and         *)
(* restored from it: items are checked and unchecked, saveToScene keeps    *)
(* the SceneClass it made, restoreFromScene is given the SceneClass kept.  *)
(* The string array "CheckedLabels" is held as the set of its strings.     *)
(***************************************************************************)
\* getAllDescendantsOfType(itemType), as the places of the items.
getAllDescendantsOfType(rows, itemType) ==
    {ptr \in ItemPtrs(rows, <<>>) : ItemAt(rows, ptr).itemType = itemType}

\* saveToScene: the SceneClass, with the array "CheckedLabels" when a label
\* item is checked.
saveToScene(rows) ==
    LET labelItems == getAllDescendantsOfType(rows, "ITEM_LABEL")
        checkedLabelNames ==
            {ItemAt(rows, lsi).text :
                lsi \in {ptr \in labelItems :
                            ItemAt(rows, ptr).checkState = "Checked"}}
    IN  [null |-> FALSE,
         hasCheckedLabels |-> checkedLabelNames # {},
         CheckedLabels |-> checkedLabelNames]

\* The loop of restoreFromScene over the label items: checked when the text
\* of the item is one of the names, unchecked otherwise.
RECURSIVE setCheckStateByName(_, _)
setCheckStateByName(rows, checkedLabelNames) ==
    [i \in 1..Len(rows) |->
        [rows[i] EXCEPT
            !.children = setCheckStateByName(@, checkedLabelNames),
            !.checkState = IF rows[i].itemType = "ITEM_LABEL"
                           THEN (IF rows[i].text \in checkedLabelNames
                                 THEN "Checked" ELSE "Unchecked")
                           ELSE @]]

restoreFromScene(rows, scene) ==
    IF scene.null THEN rows
    ELSE LET haveCheckedLabelsFlag ==
                 scene.hasCheckedLabels /\ scene.CheckedLabels # {}
         IN  updateCheckedStateOfAllItems(
                 IF haveCheckedLabelsFlag
                 THEN setCheckStateByName(rows, scene.CheckedLabels)
                 ELSE setCheckedStatusOfAllItems(rows, TRUE))

SaveToScene ==
    /\ m_validFlag
    /\ sceneClass' = saveToScene(rootItem)
    /\ savedRows' = rootItem
    /\ last' = [op |-> "saveToScene"]
    /\ UNCHANGED <<hvars, xvars, jsonDoc, cvars, m_giftiLabelTable, rootItem,
                   m_labelKeyToLabelSelectionItem, m_buildTreeMissingLabelNames,
                   m_hierarchyParentNames, m_validFlag, isSelected>>

RestoreFromScene ==
    /\ m_validFlag
    /\ rootItem' = restoreFromScene(rootItem, sceneClass)
    /\ last' = [op |-> "restoreFromScene", rows |-> rootItem]
    /\ UNCHANGED <<hvars, xvars, jsonDoc, cvars, m_giftiLabelTable,
                   m_labelKeyToLabelSelectionItem, m_buildTreeMissingLabelNames,
                   m_hierarchyParentNames, m_validFlag, isSelected, sceneClass,
                   savedRows>>

NextScene ==
    \/ AddPlainLabelHierarchyItem
    \/ ConstructPlainLabelModel
    \/ SetCheckState
    \/ SetCheckedStatusOfAllItems
    \/ SaveToScene
    \/ RestoreFromScene

SpecScene == InitLabel /\ [][NextScene]_vars

(***************************************************************************)
(* Claims                                                                  *)
(***************************************************************************)

\* C1: addItem returns false and changes neither the tree nor the used-name
\* set when the item's name is already used (the empty name included) or
\* the parent name is not a used name.
C1_AddItemRejects ==
    (/\ last.op = "addItem"
     /\ (last.toAdd.name \in last.used \/ last.parent \notin last.used))
    => (/\ ~last.ok
        /\ m_root = last.root
        /\ m_usedNames = last.used)

\* C1 witness: a call rejected only because the parent name is not used,
\* although an item of that name is in the tree (it came in as a child of
\* an added item).
C1_Witness ==
    /\ last.op = "addItem"
    /\ last.toAdd.name \notin last.used
    /\ last.parent \notin last.used
    /\ \E n \in Nodes(last.root) : n.name = last.parent
    /\ ~last.ok

\* C2: when the item's name is unused and the parent name is used, addItem
\* returns true, the item (with what it carries) is the last child of an
\* item named parentName, every item present before keeps its place, and the
\* name is added to the used names.
C2_AddItemAppends ==
    (/\ last.op = "addItem"
     /\ last.toAdd.name \notin last.used
     /\ last.parent \in last.used)
    => (/\ last.ok
        /\ m_usedNames = last.used \cup {last.toAdd.name}
        /\ \E p \in Nodes(last.root) :
              /\ p.name = last.parent
              /\ Nodes(m_root) =
                   Nodes(last.root) \cup
                   NodesAt(last.toAdd,
                           Append(p.path, NumChildrenAt(last.root, p.path) + 1)))

\* C2 witness: an item added under a non-root parent that already had a child.
C2_Witness ==
    /\ last.op = "addItem"
    /\ last.ok
    /\ last.parent # ""
    /\ \E p \in Nodes(last.root) :
          p.name = last.parent /\ NumChildrenAt(last.root, p.path) > 0

\* C3: after any sequence of addItem calls no two items of the tree share a
\* name, and every item addItem accepted is in the tree.
C3_UniqueNames ==
    /\ \A p, q \in Nodes(m_root) : p.name = q.name => p.path = q.path
    /\ (last.op = "addItem" /\ last.ok)
         => \E n \in Nodes(m_root) : n.name = last.toAdd.name

\* C4: readXML applied to the output of writeXML gives a tree with the same
\* names, the same parent/child structure and child order, and the same
\* annotation key/value pairs on every item.
C4_XmlRoundTrip ==
    last.op = "xmlRoundTrip"
    => (last.err = NoError /\ Nodes(m_root) = Nodes(last.root))

\* C5: reading back the JSON written by writeJsonFile gives a tree with the
\* same names, the same structure and child order, and the same annotation
\* key/value pairs on every item, whatever the annotation keys (stated on
\* the hierarchies whose names are unique and, but for the root, not empty).
C5_JsonRoundTrip ==
    (/\ last.op = "jsonRoundTrip"
     /\ \A p, q \in Nodes(last.root) :
           /\ p.name = q.name => p.path = q.path
           /\ p.name = "" => p.path = <<>>)
    => (last.err = NoError /\ Nodes(m_root) = Nodes(last.root))

\* C6: whenever readXML raises an error the hierarchy is left cleared: the
\* root has no children and only the empty name is used.
C6_ErrorLeavesCleared ==
    pc = "error" => (m_root = EmptyItem /\ m_usedNames = {""})

(***************************************************************************)
(* The defects of a document, stated on the tokens delivered.              *)
(***************************************************************************)
IsStart(doc, i, tag) == doc[i].kind = "start" /\ doc[i].tag = tag

SeenRoot(doc, i) == \E j \in 1..(i - 1) : IsStart(doc, j, "CaretHierarchy")

RootClosed(doc, i) ==
    \E j \in 1..(i - 1) : doc[j].kind = "end" /\ doc[j].tag = "CaretHierarchy"

OpenBefore(doc, i) ==
    LET open == OpenTags(doc, i - 1) IN {open[j] : j \in 1..Len(open)}

ItemNamesBefore(doc, i) ==
    {AttrValue(doc[j].attrs, "Name") :
        j \in {k \in 1..(i - 1) : IsStart(doc, k, "Item")}}

\* The defects the claim lists; an InfoItem inside an Info block is taken
\* as part of that block, not as an element of the hierarchy.
ListedDefect(doc, i) ==
    /\ doc[i].kind = "start"
    /\ \/ doc[i].tag = "CaretHierarchy" /\ SeenRoot(doc, i)
       \/ doc[i].tag = "Item" /\ (~SeenRoot(doc, i) \/ RootClosed(doc, i))
       \/ /\ doc[i].tag \notin {"CaretHierarchy", "Item", "Info"}
          /\ ~(doc[i].tag = "InfoItem" /\ "Info" \in OpenBefore(doc, i))
       \/ doc[i].tag = "Info" /\ "Item" \notin OpenBefore(doc, i)
       \/ /\ doc[i].tag = "CaretHierarchy"
          /\ (~HasAttribute(doc[i].attrs, "Version")
                \/ AttrValue(doc[i].attrs, "Version") # "1")
       \/ /\ doc[i].tag = "Item"
          /\ (AttrValue(doc[i].attrs, "Name") = ""
                \/ AttrValue(doc[i].attrs, "Name") \in ItemNamesBefore(doc, i))

\* An element other than InfoItem inside an Info block.
InfoBlockDefect(doc, i) ==
    /\ doc[i].kind = "start"
    /\ "Info" \in OpenBefore(doc, i)
    /\ doc[i].tag # "InfoItem"

WellFormed(doc) == \A i \in 1..Len(doc) : doc[i].kind # "invalid"

\* C7 as stated: for a well-formed document readXML raises an error exactly
\* when the document has one of the listed defects.
C7_ErrorIffListedDefect ==
    (pc \in {"readXML", "Info", "done", "error"} /\ WellFormed(xmlDoc))
    => ((pc = "error") <=> \E i \in 1..Len(xmlDoc) : ListedDefect(xmlDoc, i))

\* C7 as amended: for a well-formed document readXML raises an error,
\* prefixed "Hierarchy XML error: ", exactly when the document has one of
\* the listed defects or an element other than InfoItem inside an Info block.
C7_ErrorIffDefect ==
    (pc \in {"readXML", "Info", "done", "error"} /\ WellFormed(xmlDoc))
    => /\ (pc = "error") <=>
             \E i \in 1..Len(xmlDoc) :
                 ListedDefect(xmlDoc, i) \/ InfoBlockDefect(xmlDoc, i)
       /\ pc = "error" => err.prefix = "Hierarchy XML error: "

\* C7 witness: a document with an Info block read to its end without error.
C7_Witness ==
    /\ pc = "done"
    /\ \E i \in 1..Len(xmlDoc) : IsStart(xmlDoc, i, "InfoItem")
    /\ m_root.children # <<>>

(***************************************************************************)
(* The objects of a JSON document, as the format defines them: the         *)
(* elements of the top level and of every `children` member, in document   *)
(* order, each with its name ("" when missing or not a string) and the     *)
(* name of the object holding it.                                          *)
(***************************************************************************)
RECURSIVE DocObjects(_, _)
DocObjects(value, parent) ==
    LET Entry(v) ==
            LET name == JToString(JValue(JToObject(v), "name"))
            IN  <<[name |-> name, parent |-> parent]>>
                \o (IF name # "" /\ JContains(JToObject(v), "children")
                    THEN DocObjects(JValue(JToObject(v), "children"), name)
                    ELSE <<>>)
        RECURSIVE Entries(_)
        Entries(i) ==
            IF i > Len(value.elements) THEN <<>>
            ELSE Entry(value.elements[i]) \o Entries(i + 1)
    IN  IF value.type = "Array" THEN Entries(1)
        ELSE IF value.type = "Object" THEN Entry(value)
        ELSE <<>>

\* The i-th object has no usable name, or the name of an earlier object.
BadNameAt(objs, i) ==
    \/ objs[i].name = ""
    \/ \E j \in 1..(i - 1) : objs[j].name = objs[i].name

BeforeFirstBad(objs) ==
    {i \in 1..Len(objs) : \A j \in 1..i : ~BadNameAt(objs, j)}

\* The values of the members `key` of the objects of a document.
RECURSIVE MembersNamed(_, _)
MembersNamed(value, key) ==
    IF value.type = "Array"
    THEN UNION {MembersNamed(value.elements[i], key) :
                    i \in 1..Len(value.elements)}
    ELSE IF value.type = "Object"
    THEN (IF JContains(value.members, key)
          THEN {JValue(value.members, key)} ELSE {})
         \cup MembersNamed(JValue(value.members, "children"), key)
    ELSE {}

NameAt(root, path) ==
    (CHOOSE n \in Nodes(root) : n.path = path).name

\* C8: readJsonFile raises an error when an object of the document has a
\* missing, non-string or empty name or the name of an object before it; the
\* items loaded then are objects before the first such object, each the
\* child of the item of the object that holds it (and all of them, when no
\* `children` member is a scalar).
C8_JsonNameErrors ==
    last.op = "readJsonFile" =>
        LET objs == DocObjects(jsonDoc, "")
        IN  /\ (\E i \in 1..Len(objs) : BadNameAt(objs, i)) => err # NoError
            /\ \A n \in Nodes(m_root) :
                  n.path # <<>> =>
                     \E i \in BeforeFirstBad(objs) :
                        /\ objs[i].name = n.name
                        /\ objs[i].parent = NameAt(m_root, PopBack(n.path))
            /\ (MembersNamed(jsonDoc, "children") \subseteq
                    {v \in MembersNamed(jsonDoc, "children") :
                        v.type \in {"Array", "Object"}})
               => \A i \in BeforeFirstBad(objs) :
                     \E n \in Nodes(m_root) : n.name = objs[i].name

\* C8 witness: an error for a name used twice in a children list, with the
\* objects before it loaded below their parent.
C8_Witness ==
    /\ last.op = "readJsonFile"
    /\ err # NoError
    /\ \E n \in Nodes(m_root) : Len(n.path) = 2
    /\ LET objs == DocObjects(jsonDoc, "")
       IN  \E i \in 1..Len(objs) : objs[i].name # "" /\ BadNameAt(objs, i)

\* C9: a document whose objects all have good names, with a scalar
\* `children` member in it, is read without an error: a warning is logged
\* and every object is loaded.
C9_SoftMismatchNoError ==
    (/\ last.op = "readJsonFile"
     /\ \A i \in 1..Len(DocObjects(jsonDoc, "")) :
           ~BadNameAt(DocObjects(jsonDoc, ""), i)
     /\ \E v \in MembersNamed(jsonDoc, "children") :
           v.type \in {"Bool", "Double", "String"})
    => /\ err = NoError
       /\ last.warnings # <<>>
       /\ \A i \in 1..Len(DocObjects(jsonDoc, "")) :
             \E n \in Nodes(m_root) : n.name = DocObjects(jsonDoc, "")[i].name

\* The indices of seq, ascending, whose element satisfies Test.
Matching(seq, Test(_)) ==
    LET Sel(i) == Test(seq[i])
    IN  SelectSeq([i \in 1..Len(seq) |-> i], Sel)

\* C10: getClustersWithKey(k) returns exactly the clusters of the container
\* whose key is k, each once, in the order they were added, and nothing for
\* a key no cluster has; getClustersWithName likewise for names.
C10_ClustersWithKey ==
    /\ last.op = "getClustersWithKey" =>
          LET HasKey(cluster) == cluster.m_key = last.key
          IN  last.ret = Matching(m_clusters, HasKey)
    /\ last.op = "getClustersWithName" =>
          LET HasName(cluster) == cluster.m_name = last.name
          IN  last.ret = Matching(m_clusters, HasName)

\* C10 witness: a lookup that returns two clusters, a cluster of another
\* key having been added between them.
C10_Witness ==
    /\ last.op = "getClustersWithKey"
    /\ Len(last.ret) = 2
    /\ last.ret[2] - last.ret[1] > 1

\* ret lists every cluster of the container exactly once.
ListsEveryCluster(ret) ==
    /\ Len(ret) = Len(m_clusters)
    /\ \A i \in 1..Len(m_clusters) : \E j \in 1..Len(ret) : ret[j] = i

\* C11: whatever calls came before, getClustersSortedByKey (ByName) returns
\* every cluster the container owns exactly once in nondecreasing key (name)
\* order, and getAllClusterKeys returns the distinct keys of the clusters
\* the container owns, ascending.
C11_ViewsNeverStale ==
    /\ last.op = "getClustersSortedByKey" =>
          /\ ListsEveryCluster(last.ret)
          /\ \A i, j \in 1..Len(last.ret) :
                i < j => m_clusters[last.ret[i]].m_key <= m_clusters[last.ret[j]].m_key
    /\ last.op = "getClustersSortedByName" =>
          /\ ListsEveryCluster(last.ret)
          /\ \A i, j \in 1..Len(last.ret) :
                i < j => NameIndex(m_clusters[last.ret[i]].m_name)
                            <= NameIndex(m_clusters[last.ret[j]].m_name)
    /\ last.op = "getAllClusterKeys" =>
          /\ {last.ret[i] : i \in 1..Len(last.ret)}
                = {m_clusters[i].m_key : i \in 1..Len(m_clusters)}
          /\ \A i, j \in 1..Len(last.ret) : i < j => last.ret[i] < last.ret[j]

\* C11 witness: getClustersSortedByKey returns a cluster added later before
\* one added earlier, the keys and the by-name view being cached as well.
C11_Witness ==
    /\ last.op = "getClustersSortedByKey"
    /\ \E i \in 1..(Len(last.ret) - 1) : last.ret[i] > last.ret[i + 1]
    /\ m_keysSorted # <<>>
    /\ m_vectorClustersSortedByName # <<>>

\* The clusters of seq with the given key and location type, as indices.
ClustersOf(seq, key, t) ==
    {i \in 1..Len(seq) : seq[i].m_key = key /\ seq[i].m_location = t}

\* The coordinates that the clusters of the given key and type hold in seq
\* once its CENTRAL clusters have been split by the sign of X.
CoordinatesAfterSplit(seq, key, t) ==
    UNION {seq[i].m_coordinates : i \in ClustersOf(seq, key, t)}
    \cup (IF t = "LEFT"
          THEN UNION {{xy \in seq[i].m_coordinates : xy[1] < 0} :
                         i \in ClustersOf(seq, key, "CENTRAL")}
          ELSE IF t = "RIGHT"
          THEN UNION {{xy \in seq[i].m_coordinates : xy[1] > 0} :
                         i \in ClustersOf(seq, key, "CENTRAL")}
          ELSE {})

\* C12: the container mergeDisjointRightLeftClusters returns holds, for each
\* key of the input and each location type, at most one cluster, whose
\* coordinates are those of all input clusters of that key and type after
\* the CENTRAL clusters were split; a key that has only one UNKNOWN cluster
\* yields exactly one cluster, of type UNKNOWN.
C12_MergePerKeyAndType ==
    last.op = "mergeDisjointRightLeftClusters" =>
        \A key \in {last.clusters[i].m_key : i \in 1..Len(last.clusters)} :
            /\ \A t \in LocationTypes :
                  /\ Cardinality(ClustersOf(last.ret, key, t)) <= 1
                  /\ \A j \in ClustersOf(last.ret, key, t) :
                        last.ret[j].m_coordinates
                            = CoordinatesAfterSplit(last.clusters, key, t)
            /\ (\A i \in 1..Len(last.clusters) :
                    last.clusters[i].m_key = key
                        => last.clusters[i].m_location = "UNKNOWN")
                  => /\ Cardinality(ClustersOf(last.ret, key, "UNKNOWN")) = 1
                     /\ \A j \in 1..Len(last.ret) :
                           last.ret[j].m_key = key
                               => last.ret[j].m_location = "UNKNOWN"

\* C12 witness: a merge whose LEFT cluster of some key holds more than the
\* LEFT cluster of the input, a CENTRAL cluster of the key having been split.
C12_Witness ==
    /\ last.op = "mergeDisjointRightLeftClusters"
    /\ \E j \in 1..Len(last.ret) :
          /\ last.ret[j].m_location = "LEFT"
          /\ ClustersOf(last.clusters, last.ret[j].m_key, "CENTRAL") # {}
          /\ \E i \in ClustersOf(last.clusters, last.ret[j].m_key, "LEFT") :
                last.clusters[i].m_coordinates # last.ret[j].m_coordinates

\* C13: for a key with a CENTRAL cluster that has coordinates on both sides
\* of X = 0, one LEFT and one RIGHT cluster, the returned container holds
\* exactly one LEFT cluster (the LEFT one with the negative half), exactly
\* one RIGHT cluster (the RIGHT one with the positive half), and no CENTRAL
\* or UNKNOWN cluster of that key.
C13_CentralLeftRight ==
    last.op = "mergeDisjointRightLeftClusters" =>
        \A key \in ClusterKeys :
            (/\ \E c \in ClustersOf(last.clusters, key, "CENTRAL") :
                  /\ ClustersOf(last.clusters, key, "CENTRAL") = {c}
                  /\ \E p, q \in last.clusters[c].m_coordinates :
                        p[1] < 0 /\ q[1] > 0
             /\ Cardinality(ClustersOf(last.clusters, key, "LEFT")) = 1
             /\ Cardinality(ClustersOf(last.clusters, key, "RIGHT")) = 1
             /\ ClustersOf(last.clusters, key, "UNKNOWN") = {})
            => /\ \E l \in ClustersOf(last.ret, key, "LEFT") :
                     /\ ClustersOf(last.ret, key, "LEFT") = {l}
                     /\ last.ret[l].m_coordinates
                            = CoordinatesAfterSplit(last.clusters, key, "LEFT")
               /\ \E r \in ClustersOf(last.ret, key, "RIGHT") :
                     /\ ClustersOf(last.ret, key, "RIGHT") = {r}
                     /\ last.ret[r].m_coordinates
                            = CoordinatesAfterSplit(last.clusters, key, "RIGHT")
               /\ ClustersOf(last.ret, key, "CENTRAL") = {}
               /\ ClustersOf(last.ret, key, "UNKNOWN") = {}

\* The clusters made by splitting the CENTRAL clusters of seq.
SplitsOf(seq) ==
    {splitClusterIntoRightAndLeft(seq[i])[h] :
        i \in {n \in 1..Len(seq) : seq[n].m_location = "CENTRAL"}, h \in 1..2}

\* C14: mergeDisjointRightLeftClusters leaves every cluster the container
\* had in place and unmodified; what it adds to the container are the LEFT
\* and RIGHT clusters made by splitting its CENTRAL clusters, two for each;
\* and every cluster of the returned container is an object of its own,
\* owned by neither the input container nor twice by the returned one.
C14_MergeFrame ==
    last.op = "mergeDisjointRightLeftClusters" =>
        /\ Len(m_clusters) = Len(last.clusters)
              + 2 * Cardinality({i \in 1..Len(last.clusters) :
                                    last.clusters[i].m_location = "CENTRAL"})
        /\ \A i \in 1..Len(last.clusters) : m_clusters[i] = last.clusters[i]
        /\ \A i \in (Len(last.clusters) + 1)..Len(m_clusters) :
              /\ m_clusters[i].m_location \in {"LEFT", "RIGHT"}
              /\ m_clusters[i] \in SplitsOf(last.clusters)
        /\ \A j \in 1..Len(last.objs) :
              /\ last.objs[j] > Len(m_clusters)
              /\ \A k \in 1..Len(last.objs) : last.objs[j] = last.objs[k] => j = k

\* C14 witness: a merge that split a CENTRAL cluster and merged two clusters
\* of a key and type into one.
C14_Witness ==
    /\ last.op = "mergeDisjointRightLeftClusters"
    /\ Len(m_clusters) > Len(last.clusters)
    /\ \E key \in ClusterKeys, t \in LocationTypes :
          /\ Cardinality(ClustersOf(last.clusters, key, t)) > 1
          /\ ClustersOf(last.ret, key, t) # {}

(***************************************************************************)
(* LabelSelectionItemModel: the build.                                     *)
(***************************************************************************)
Constructed == last.op = "LabelSelectionItemModel"

BuildSteps == {"walk", "reconcile", "markUnused", "checkInit"}

AllItemPtrs == ItemPtrs(rootItem, <<>>)

\* The hierarchy items below the invisible root, each with its path, which
\* is also the place of the item built for it.
HierarchyNodes == {n \in Nodes(m_root) : n.path # <<>>}

\* C15: a model built from an empty hierarchy has no display item and no
\* entry in the label-key map and is not valid; a valid model has been
\* through every step of the build (walk, reconciliation, marking of the
\* unused keys, initialisation of the check states).
C15_ValidOnlyWhenBuilt ==
    Constructed =>
        /\ isEmpty(m_root) =>
               /\ rootItem = <<>>
               /\ m_labelKeyToLabelSelectionItem = {}
               /\ ~ isValid
        /\ isValid =>
               /\ BuildSteps \subseteq last.build.steps
               /\ ~ last.build.crashed

C15_Witness ==
    /\ Constructed
    /\ isEmpty(m_root)
    /\ DOMAIN m_giftiLabelTable # {}
    /\ ~ last.clusterContainer.null
    /\ ~ isValid

\* C16: a model constructed with no cluster container (NULL) from a
\* non-empty hierarchy completes every step of the build without
\* dereferencing the container, its items have no clusters, and it is valid.
C16_NullContainerBuild ==
    (Constructed /\ last.clusterContainer.null /\ ~ isEmpty(m_root)) =>
        /\ ~ last.build.nullDereferenced
        /\ ~ last.build.crashed
        /\ BuildSteps \subseteq last.build.steps
        /\ \A ptr \in AllItemPtrs : ItemAt(rootItem, ptr).clusters = <<>>
        /\ isValid

\* C17: the item built for a childless hierarchy item whose name has no
\* label is disabled, has a tooltip, has label key -1, is not in the
\* label-key map, and its name is in m_buildTreeMissingLabelNames; the item
\* built for a hierarchy item with children whose name has no label is an
\* enabled grouping item, and its name is not recorded as missing.
C17_ItemsWithoutLabel ==
    Constructed =>
        \A n \in HierarchyNodes :
            getLabel(m_giftiLabelTable, n.name).null =>
                LET item == ItemAt(rootItem, n.path)
                IN  IF NumChildrenAt(m_root, n.path) = 0
                    THEN /\ ~ item.enabled
                         /\ item.toolTip # <<>>
                         /\ item.labelIndex = -1
                         /\ \A e \in m_labelKeyToLabelSelectionItem :
                                e[2] # n.path
                         /\ n.name \in m_buildTreeMissingLabelNames
                    ELSE /\ item.enabled
                         /\ item.itemType = "ITEM_HIERARCHY"
                         /\ item.labelIndex = -1
                         /\ n.name \notin m_buildTreeMissingLabelNames

C18_Unbound ==
    {k \in LabelKeys(m_giftiLabelTable) :
        /\ k # getUnassignedLabelKey(m_giftiLabelTable)
        /\ ~ MapHas(last.build.walkedMap, k)}

\* The rows of the top-level items that were not made by the walk.
C18_GroupRows == {i \in 1..Len(rootItem) : i > last.build.walked}

\* C18: after the walk, every label key other than the unassigned key that
\* has no item is either noted in labelIsParentInHierarchyNames, when its
\* name is in m_hierarchyParentNames, and gets no item, or gets one new item
\* of its key in the "Label Table Only" group; there is one such group, made
\* only when there is such a label, and it comes after the top-level items
\* of the hierarchy.
C18_LabelTableOnly ==
    (Constructed /\ ~ isEmpty(m_root)) =>
        LET table == m_giftiLabelTable
            others == {k \in C18_Unbound :
                          getLabelName(table, k) \notin m_hierarchyParentNames}
            ItemsOf(k) == {ptr \in AllItemPtrs :
                              /\ ptr[1] \in C18_GroupRows
                              /\ Len(ptr) = 2
                              /\ ItemAt(rootItem, ptr).labelIndex = k}
        IN  /\ \A k \in C18_Unbound \ others :
                   /\ getLabelName(table, k)
                          \in last.build.labelIsParentInHierarchyNames
                   /\ ItemsOf(k) = {}
                   /\ ~ MapHas(m_labelKeyToLabelSelectionItem, k)
            /\ \A k \in others :
                   /\ Cardinality(ItemsOf(k)) = 1
                   /\ ItemsOf(k) = {MapAt(m_labelKeyToLabelSelectionItem, k)}
                   /\ \A ptr \in ItemsOf(k) :
                          ItemAt(rootItem, ptr).text = getLabelName(table, k)
            /\ C18_GroupRows =
                   IF others = {} THEN {} ELSE {last.build.walked + 1}
            /\ \A i \in C18_GroupRows :
                   /\ rootItem[i].text = LabelTableOnly
                   /\ rootItem[i].itemType = "ITEM_HIERARCHY"
                   /\ Len(rootItem[i].children) = Cardinality(others)

\* C19: after a build that marked the model valid every item of the display
\* tree is checked, and isLabelChecked(k) is true for the keys in the
\* label-key map and false for every other key.
C19_AllCheckedAfterBuild ==
    (Constructed /\ isValid) =>
        /\ \A ptr \in AllItemPtrs :
               ItemAt(rootItem, ptr).checkState = "Checked"
        /\ \A k \in LabelKeys(m_giftiLabelTable) \cup {-1} :
               isLabelChecked(rootItem, m_labelKeyToLabelSelectionItem, k)
                   <=> MapHas(m_labelKeyToLabelSelectionItem, k)

\* A model with a disabled leaf below a grouping item, an item with a label
\* and rows, an item of the "Label Table Only" group, and a label key
\* without item.
C19_Witness ==
    /\ Constructed
    /\ isValid
    /\ \E ptr \in AllItemPtrs :
           /\ Len(ptr) = 2
           /\ ptr[1] <= last.build.walked
           /\ ~ ItemAt(rootItem, ptr).enabled
    /\ \E ptr \in AllItemPtrs :
           /\ Len(ptr) = 2
           /\ ptr[1] > last.build.walked
    /\ \E e \in m_labelKeyToLabelSelectionItem :
           hasChildren(ItemAt(rootItem, e[2]))
    /\ \E k \in LabelKeys(m_giftiLabelTable) :
           ~ MapHas(m_labelKeyToLabelSelectionItem, k)

\* C20: after updateCheckedStateOfAllItems every item with rows, at any
\* depth, is checked if all its rows are checked, unchecked if all its rows
\* are unchecked and partially checked otherwise, and every item without
\* rows has the state it had before the call.
C20_StateFromChildren ==
    last.op = "updateCheckedStateOfAllItems" =>
        \A ptr \in AllItemPtrs :
            LET item == ItemAt(rootItem, ptr)
                states == {item.children[i].checkState :
                              i \in 1..Len(item.children)}
            IN  IF hasChildren(item)
                THEN item.checkState =
                         IF states = {"Checked"} THEN "Checked"
                         ELSE IF states = {"Unchecked"} THEN "Unchecked"
                         ELSE "PartiallyChecked"
                ELSE item.checkState = ItemAt(last.rows, ptr).checkState

\* An update that changed the state of an item with rows two levels down
\* and of the item above it, and left another item partially checked.
C20_Witness ==
    /\ last.op = "updateCheckedStateOfAllItems"
    /\ \E ptr \in AllItemPtrs :
           /\ Len(ptr) = 2
           /\ hasChildren(ItemAt(rootItem, ptr))
           /\ ItemAt(last.rows, ptr).checkState = "Checked"
           /\ ItemAt(rootItem, ptr).checkState = "Unchecked"
           /\ ItemAt(last.rows, <<ptr[1]>>).checkState = "Checked"
           /\ ItemAt(rootItem, <<ptr[1]>>).checkState = "Unchecked"
    /\ \E ptr \in AllItemPtrs :
           ItemAt(rootItem, ptr).checkState = "PartiallyChecked"

(***************************************************************************)
(* CaretHierarchy: the used names.                                         *)
(***************************************************************************)
\* C23: when every Item added carries no children, the used names are the
\* names of the items of the tree, the root with its empty name included,
\* and a call of addItem that passes both early checks finds the parent and
\* returns true.
C23_UsedNamesAreTreeNames ==
    /\ m_usedNames = {n.name : n \in Nodes(m_root)}
    /\ (/\ last.op = "addItem"
        /\ last.toAdd.name \notin last.used
        /\ last.parent \in last.used)
       => last.ok

\* An item added below an item that is not the root.
C23_Witness ==
    /\ last.op = "addItem"
    /\ last.ok
    /\ last.parent # ""
    /\ Cardinality(m_usedNames) = 3

\* ---------------------------------------------------------------------
\* ClusterContainer: merging twice.

\* The clusters of seq that have the location type t.
ClustersOf1(seq, t) == {i \in 1..Len(seq) : seq[i].m_location = t}

\* The clusters of seq as (key, type, coordinate set) triples.
ClusterTriples(seq) ==
    {<<seq[i].m_key, seq[i].m_location, seq[i].m_coordinates>> :
        i \in 1..Len(seq)}

\* C28: a call of mergeDisjointRightLeftClusters that directly follows
\* another on the same container returns the same clusters (key, type and
\* coordinate set) as the call before it, although each call adds the
\* halves of the CENTRAL clusters to the container again; the halves, being
\* LEFT or RIGHT, are not split themselves.
C28_MergeTwiceSameClusters ==
    (last.op = "mergeDisjointRightLeftClusters" /\ last.again) =>
        /\ ClusterTriples(last.ret) = ClusterTriples(last.before)
        /\ Len(last.ret) = Len(last.before)
        /\ Len(m_clusters) - Len(last.clusters)
              = 2 * Cardinality(ClustersOf1(last.clusters, "CENTRAL"))

\* C28 witness: a second call on a container to which the first call had
\* added split halves, and which adds them once more.
C28_Witness ==
    /\ last.op = "mergeDisjointRightLeftClusters"
    /\ last.again
    /\ Len(m_clusters) > Len(last.clusters)
    /\ \E i, j \in 1..Len(m_clusters) :
          /\ i < j /\ j > Len(last.clusters) /\ i <= Len(last.clusters)
          /\ m_clusters[i] = m_clusters[j]
          /\ m_clusters[i].m_location = "LEFT"
    /\ \E j \in 1..Len(last.ret) : last.ret[j].m_location = "LEFT"

\* ---------------------------------------------------------------------
\* CaretHierarchy::readXML: the two stacks.

\* The paths of the Items below item (the path of item itself is <<>>).
RECURSIVE ItemPaths(_)
ItemPaths(item) ==
    {<<>>} \cup UNION {{<<i>> \o p : p \in ItemPaths(item.children[i])} :
                          i \in 1..Len(item.children)}

\* The Item at path below item.
RECURSIVE ItemAtPath(_, _)
ItemAtPath(item, path) ==
    IF path = <<>> THEN item
    ELSE ItemAtPath(item.children[Head(path)], Tail(path))

\* The Item on top of the stack of open Items: the root while none is open.
TopOfStack == IF addedInfo = <<>> THEN <<>> ELSE Back(addedInfo)

\* While readXML runs, parents has one entry more than addedInfo, the open
\* Items are a path from the root down (each the last child of the one
\* before, and named as parents says), and no pointer of addedInfo was
\* taken into a vector that has grown since.
C29_StacksInStep ==
    pc # "idle" =>
        /\ Len(parents) = Len(addedInfo) + 1
        /\ parents[1] = ""
        /\ staleInfo = {}
        /\ \A i \in 1..Len(addedInfo) :
              /\ addedInfo[i] \in ItemPaths(m_root)
              /\ Len(addedInfo[i]) = i
              /\ PopBack(addedInfo[i])
                    = (IF i = 1 THEN <<>> ELSE addedInfo[i - 1])
              /\ ItemAtPath(m_root, addedInfo[i]).name = parents[i + 1]
        /\ pc = "Info" => addedInfo # <<>>

\* A step that adds an Item appends it to the children of the Item on top
\* of the stack and to no other; a step that reads the end of an Item finds
\* both stacks non-empty.
C29_PushAndPop ==
    /\ ItemCount(m_root') > ItemCount(m_root) =>
          /\ ItemPaths(m_root') = ItemPaths(m_root)
                \cup {Append(TopOfStack,
                             Len(ItemAtPath(m_root, TopOfStack).children) + 1)}
          /\ ItemAtPath(m_root', TopOfStack).children
                = Append(ItemAtPath(m_root, TopOfStack).children,
                         NewItem(Back(parents')))
          /\ Back(addedInfo') = Append(TopOfStack,
                             Len(ItemAtPath(m_root, TopOfStack).children) + 1)
    /\ (/\ pc = "readXML"
        /\ xmlDoc' = Append(xmlDoc, EndElement("Item")))
          => addedInfo # <<>> /\ Len(parents) > 1

\* C29: during readXML the parents stack has exactly one more entry than
\* the addedInfo stack, the open Items form a path from the root to a node,
\* a new Item is appended only to the children of the Item on top of the
\* stack, every pointer of addedInfo refers to the live extraInfo of its
\* Item when an Info block is read, and no stack is popped when empty.
C29_ReadXMLStacks == [](C29_StacksInStep) /\ [][C29_PushAndPop]_vars

\* C29 witness: an Info block is being read, an InfoItem of it already
\* stored, for an Item that was opened inside another open Item.
C29_Witness ==
    /\ pc = "Info"
    /\ Len(addedInfo) = 2
    /\ Len(parents) = 3
    /\ InfoAt(m_root, Back(addedInfo)) # KVEmpty

\* ---------------------------------------------------------------------
\* CaretHierarchy: what readJsonFile makes of the members of an object.

\* The annotations the format gives an object: its members other than
\* `name` and `children` that hold a boolean, a number or a string, under
\* their keys, a boolean as "True" or "False".
AnnotationsOf(members) ==
    LET Kept(mem) == /\ mem[1] \notin {"name", "children"}
                     /\ mem[2].type \in {"Bool", "Double", "String"}
        kept == SelectSeq(members, Kept)
    IN  [i \in 1..Len(kept) |->
            <<kept[i][1],
              CASE kept[i][2].type = "Bool"
                       -> (IF kept[i][2].b THEN "True" ELSE "False")
                [] kept[i][2].type = "String" -> kept[i][2].s
                [] OTHER -> NumberG16(kept[i][2].d)>>]

\* The Items the format gives a top level or a `children` member: one for
\* each object of an array, in its order, or one for a single object.
RECURSIVE ItemsOfJson(_)
ItemsOfJson(value) ==
    LET ItemOf(v) ==
            [name |-> JToString(JValue(v.members, "name")),
             extraInfo |-> AnnotationsOf(v.members),
             children |-> ItemsOfJson(JValue(v.members, "children"))]
    IN  IF value.type = "Array"
        THEN [i \in 1..Len(value.elements) |-> ItemOf(value.elements[i])]
        ELSE IF value.type = "Object" THEN <<ItemOf(value)>>
        ELSE <<>>

\* Every Item below and including item.
RECURSIVE ItemsBelow(_)
ItemsBelow(item) ==
    {item} \cup UNION {ItemsBelow(item.children[i]) :
                          i \in 1..Len(item.children)}

\* C22: a document readJsonFile reads without error gives the tree of its
\* objects: each object an Item whose annotations are its members other
\* than `name` and `children` that hold a boolean ("True" or "False"), a
\* number or a string, under the same keys, and whose children are the
\* objects of its `children` member (an array or a single object), in
\* order, below it; `name` and `children` are annotations of no Item, also
\* when the read ends with an error.
C22_JsonMembers ==
    last.op = "readJsonFile" =>
        /\ err = NoError =>
              m_root = [EmptyItem EXCEPT !.children = ItemsOfJson(jsonDoc)]
        /\ \A item \in ItemsBelow(m_root) :
              /\ ~KVHas(item.extraInfo, "name")
              /\ ~KVHas(item.extraInfo, "children")

\* C22 witness: a document read without error whose first object has a
\* boolean member, which became an annotation, and a child object.
C22_Witness ==
    /\ last.op = "readJsonFile"
    /\ err = NoError
    /\ Len(m_root.children) = 2
    /\ m_root.children[1].extraInfo = <<<<"k", "False">>>>
    /\ Len(m_root.children[1].children) = 1

\* ---------------------------------------------------------------------
\* LabelSelectionItemModel: the keys and the items of the label-key map.

\* The build ran with a cluster container and dereferenced no NULL pointer.
BuiltWithContainer == Constructed /\ ~ last.clusterContainer.null

\* C24: every key in m_labelKeyToLabelSelectionItem is non-negative after a
\* build, whatever the label table, a table with a label of a negative key
\* included, so that CaretAssert(key >= 0) in
\* synchronizeSelectionsWithLabelTable holds for every entry.
C24_KeysNonNegative ==
    BuiltWithContainer =>
        \A e \in m_labelKeyToLabelSelectionItem : e[1] >= 0

\* The items of the display tree made for the label of key k.
ItemsOfKey(k) ==
    {ptr \in AllItemPtrs :
        /\ ItemAt(rootItem, ptr).itemType = "ITEM_LABEL"
        /\ ItemAt(rootItem, ptr).labelIndex = k}

\* C25: after a build from a hierarchy whose names are unique, each label
\* key has at most one display item, and the entry of the key in
\* m_labelKeyToLabelSelectionItem points to it; a key placed in the walk
\* gets no second item under "Label Table Only", also when two keys of the
\* table share a name.
C25_OneItemPerKey ==
    (/\ BuiltWithContainer
     /\ \A p, q \in Nodes(m_root) : p.name = q.name => p.path = q.path)
    => \A k \in DOMAIN m_giftiLabelTable :
          /\ Cardinality(ItemsOfKey(k)) <= 1
          /\ MapHas(m_labelKeyToLabelSelectionItem, k)
                => MapAt(m_labelKeyToLabelSelectionItem, k) \in ItemsOfKey(k)
          /\ (MapHas(last.build.walkedMap, k) /\ Len(rootItem) > last.build.walked)
                => \A i \in 1..Len(rootItem[Len(rootItem)].children) :
                      rootItem[Len(rootItem)].children[i].labelIndex # k

\* ---------------------------------------------------------------------
\* LabelSelectionItemModel: the selections and the label table.

Synchronized == last.op = "synchronizeSelectionsWithLabelTable"

\* The keys of the map whose label the table still has.
KeysWithLabel ==
    {e[1] : e \in {x \in m_labelKeyToLabelSelectionItem :
                      x[1] \in LabelKeys(m_giftiLabelTable)}}

\* The check state an item with rows has when it agrees with its rows.
StateOfRows(item) ==
    LET states == {item.children[i].checkState : i \in 1..Len(item.children)}
    IN  IF states = {"Checked"} THEN "Checked"
        ELSE IF states = {"Unchecked"} THEN "Unchecked"
        ELSE "PartiallyChecked"

\* Every item of rows that has rows agrees with them.
InteriorConsistent(rows) ==
    \A ptr \in ItemPtrs(rows, <<>>) :
        hasChildren(ItemAt(rows, ptr))
            => ItemAt(rows, ptr).checkState = StateOfRows(ItemAt(rows, ptr))

\* C21: synchronizeSelectionsWithLabelTable(true) sets the selected flag of
\* the label of each key of the map from the check state of the item of the
\* key (selected unless the item is unchecked) and changes no item and no
\* other flag; with false it sets the check state of the item of each key
\* from the selected flag of its label, changes no flag, and then every
\* item with rows has the state its rows give it.  A key whose label the
\* table no longer has is skipped either way: its item stays as it was.
C21_Synchronize ==
    Synchronized =>
        IF last.copyToLabelTableFlag
        THEN /\ rootItem = last.rows
             /\ DOMAIN isSelected = DOMAIN last.selected
             /\ \A k \in DOMAIN isSelected :
                   isSelected[k] =
                       IF k \in KeysWithLabel
                       THEN ItemAt(last.rows,
                                   MapAt(m_labelKeyToLabelSelectionItem, k)
                                  ).checkState # "Unchecked"
                       ELSE last.selected[k]
        ELSE /\ isSelected = last.selected
             /\ InteriorConsistent(rootItem)
             /\ \A ptr \in AllItemPtrs :
                   ~ hasChildren(ItemAt(rootItem, ptr)) =>
                       ItemAt(rootItem, ptr).checkState =
                           IF \E k \in KeysWithLabel :
                                 MapAt(m_labelKeyToLabelSelectionItem, k) = ptr
                           THEN LET k == CHOOSE k \in KeysWithLabel :
                                     MapAt(m_labelKeyToLabelSelectionItem, k) = ptr
                                IN  IF isSelected[k] THEN "Checked"
                                    ELSE "Unchecked"
                           ELSE ItemAt(last.rows, ptr).checkState

\* C21 witness: a copy from the label table that unchecked an item, left
\* the checked item of a deleted label alone although the other labels are
\* not selected, and made an item with rows partially checked.
C21_Witness ==
    /\ Synchronized
    /\ ~ last.copyToLabelTableFlag
    /\ \E e \in m_labelKeyToLabelSelectionItem :
          /\ e[1] \notin LabelKeys(m_giftiLabelTable)
          /\ ItemAt(rootItem, e[2]).checkState = "Checked"
          /\ ~ hasChildren(ItemAt(rootItem, e[2]))
    /\ \A k \in DOMAIN m_giftiLabelTable : ~ isSelected[k]
    /\ \E ptr \in AllItemPtrs :
          /\ ItemAt(rootItem, ptr).checkState = "Unchecked"
          /\ ItemAt(last.rows, ptr).checkState = "Checked"
    /\ \E ptr \in AllItemPtrs :
          /\ ItemAt(rootItem, ptr).checkState = "PartiallyChecked"
          /\ ItemAt(last.rows, ptr).checkState # "PartiallyChecked"

\* C26: when every item with rows agrees with its rows,
\* synchronizeSelectionsWithLabelTable(true) directly followed by
\* synchronizeSelectionsWithLabelTable(false) leaves every item with the
\* check state it had before the two calls.
C26_CopyThereAndBack ==
    (/\ Synchronized
     /\ ~ last.copyToLabelTableFlag
     /\ last.afterCopy
     /\ InteriorConsistent(last.prior))
    => \A ptr \in AllItemPtrs :
          ItemAt(rootItem, ptr).checkState = ItemAt(last.prior, ptr).checkState

\* C26 witness: the two calls on a model with a partially checked item of a
\* label, an unchecked item of a label, and a label that is selected in the
\* table although its item is unchecked until the first call copies.
C26_Witness ==
    /\ Synchronized
    /\ ~ last.copyToLabelTableFlag
    /\ last.afterCopy
    /\ InteriorConsistent(last.prior)
    /\ \E k \in KeysWithLabel :
          ItemAt(rootItem, MapAt(m_labelKeyToLabelSelectionItem, k)).checkState
              = "PartiallyChecked"
    /\ \E k \in KeysWithLabel :
          /\ ItemAt(rootItem, MapAt(m_labelKeyToLabelSelectionItem, k)).checkState
                = "Unchecked"
          /\ ~ isSelected[k]

\* ---------------------------------------------------------------------
\* LabelSelectionItemModel: the scene.

\* C27: restoreFromScene, given the SceneClass saveToScene made of a model
\* with the same tree, gives every label item without rows the check state
\* it had when the scene was saved, whatever label items were checked then,
\* none of them included, and every item with rows the state of its rows.
C27_SceneRoundTrip ==
    (last.op = "restoreFromScene" /\ ~ sceneClass.null) =>
        /\ InteriorConsistent(rootItem)
        /\ \A ptr \in getAllDescendantsOfType(rootItem, "ITEM_LABEL") :
              ~ hasChildren(ItemAt(rootItem, ptr)) =>
                  ItemAt(rootItem, ptr).checkState
                      = ItemAt(savedRows, ptr).checkState

=========================================================================
